---------------------------- MODULE Spec2Model ----------------------------
(***************************************************************************)
(* Sort Resort: the greedy heuristic level solver (level_solver.py) and    *)
(* its match / cascade engine, as a state machine.                         *)
(*                                                                         *)
(* Indices are 0-based as in the source: containers[ci], slots[s][r], with *)
(* r = 0 the front row.  An item type is a positive integer, None is the   *)
(* empty cell.                                                             *)
(***************************************************************************)
EXTENDS Integers, Sequences, FiniteSets, TLC

(***************************************************************************)
(* Bounds of the model.                                                    *)
(***************************************************************************)
NumItemTypes == 2
MaxUnlock == 2
MaxMoveLimit == 3
MaxSeed == 2

(***************************************************************************)
(* Program constants.                                                      *)
(***************************************************************************)
None == 0
MAX_MOVES == 500
PATTERN_WINDOW == 10

Items == 1..NumItemTypes
Cell == Items \cup {None}

Range0(n) == 0..(n - 1)

(***************************************************************************)
(* ContainerState                                                          *)
(***************************************************************************)

\* ContainerState.__init__: an empty grid slots[s][r] of the given shape.
ContainerState(cid, slot_count, max_rows, is_locked, unlock_matches_required) ==
    [id |-> cid,
     slot_count |-> slot_count,
     max_rows |-> max_rows,
     is_locked |-> is_locked,
     unlock_matches_required |-> unlock_matches_required,
     current_unlock_progress |-> 0,
     slots |-> [s \in Range0(slot_count) |-> [r \in Range0(max_rows) |-> None]]]

get_front_item(c, slot_idx) ==
    IF 0 <= slot_idx /\ slot_idx < c.slot_count THEN c.slots[slot_idx][0] ELSE None

is_front_slot_empty(c, slot_idx) == get_front_item(c, slot_idx) = None

get_empty_front_slot_count(c) ==
    Cardinality({s \in Range0(c.slot_count) : is_front_slot_empty(c, s)})

\* The number of occupied front cells (len(get_front_row_items())).
front_occupied(c) ==
    Cardinality({s \in Range0(c.slot_count) : ~is_front_slot_empty(c, s)})

\* How many front cells hold item (get_front_row_items().count(item)).
front_count(c, item) ==
    Cardinality({s \in Range0(c.slot_count) : c.slots[s][0] = item})

has_back_row_items(c) ==
    \E s \in Range0(c.slot_count) : \E r \in 1..(c.max_rows - 1) : c.slots[s][r] # None

get_back_row_item_count(c) ==
    Cardinality({sr \in Range0(c.slot_count) \X (1..(c.max_rows - 1)) :
                    c.slots[sr[1]][sr[2]] # None})

\* The set of types of get_back_row_item_types(); the source only tests
\* membership in the list.
get_back_row_item_types(c) ==
    {c.slots[sr[1]][sr[2]] : sr \in {x \in Range0(c.slot_count) \X (1..(c.max_rows - 1)) :
                                         c.slots[x[1]][x[2]] # None}}

container_total_item_count(c) ==
    Cardinality({sr \in Range0(c.slot_count) \X Range0(c.max_rows) :
                    c.slots[sr[1]][sr[2]] # None})

container_is_empty(c) ==
    \A s \in Range0(c.slot_count) : \A r \in Range0(c.max_rows) : c.slots[s][r] = None

(***************************************************************************)
(* GameState: [containers, move_count, match_count]                        *)
(***************************************************************************)
NumContainers(state) == Cardinality(DOMAIN state.containers)

RECURSIVE SumTo(_, _)
SumTo(f, n) == IF n = 0 THEN 0 ELSE f[n - 1] + SumTo(f, n - 1)

get_total_item_count(state) ==
    SumTo([ci \in DOMAIN state.containers |->
              container_total_item_count(state.containers[ci])],
          NumContainers(state))

\* Faulty variant of is_complete: only the front rows are looked at.
front_rows_empty(state) ==
    \A ci \in DOMAIN state.containers :
        get_empty_front_slot_count(state.containers[ci]) = state.containers[ci].slot_count

is_complete(state) == get_total_item_count(state) = 0

(***************************************************************************)
(* Row advance                                                             *)
(***************************************************************************)

\* The first row >= 1 of the slot holding an item, -1 when there is none.
first_non_null(slot, num_rows) ==
    IF \E r \in 1..(num_rows - 1) : slot[r] # None
    THEN CHOOSE r \in 1..(num_rows - 1) :
            /\ slot[r] # None
            /\ \A q \in 1..(r - 1) : slot[q] = None
    ELSE -1

\* The in-place shift loop: for r in range(fnn, num_rows):
\*     slot[r - fnn] = slot[r]; slot[r] = None
RECURSIVE advance_loop(_, _, _, _)
advance_loop(slot, fnn, num_rows, r) ==
    IF r >= num_rows THEN slot
    ELSE advance_loop([slot EXCEPT ![r - fnn] = slot[r], ![r] = None],
                      fnn, num_rows, r + 1)

\* Faulty variant of advance_slot: every slot is shifted by one row.
advance_slot_one_row(slot, num_rows) ==
    IF first_non_null(slot, num_rows) > 0 THEN advance_loop(slot, 1, num_rows, 1)
    ELSE slot

advance_slot(slot, num_rows) ==
    LET fnn == first_non_null(slot, num_rows)
    IN  IF fnn > 0 THEN advance_loop(slot, fnn, num_rows, fnn) ELSE slot

\* Faulty variant of check_and_advance_rows: rows never advance.
never_advance_rows(c) == c

check_and_advance_rows(c) ==
    IF \E s \in Range0(c.slot_count) : ~is_front_slot_empty(c, s) THEN c
    ELSE IF ~has_back_row_items(c) THEN c
    ELSE [c EXCEPT !.slots = [s \in Range0(c.slot_count) |->
                                 advance_slot(c.slots[s], c.max_rows)]]

(***************************************************************************)
(* Match processing                                                        *)
(***************************************************************************)

\* The test of _process_container_match: no front cell is None and the set
\* of front items has exactly one element.
front_is_match(c) ==
    /\ \A s \in Range0(c.slot_count) : c.slots[s][0] # None
    /\ Cardinality({c.slots[s][0] : s \in Range0(c.slot_count)}) = 1

\* Faulty variant of unlock_progress: progress is counted on unlocked
\* containers too.
unlock_progress_any(c) ==
    [c EXCEPT !.current_unlock_progress = @ + 1,
              !.is_locked = c.is_locked
                            /\ ~(c.current_unlock_progress + 1 >= c.unlock_matches_required)]

\* Unlock progress of one container on one match.
unlock_progress(c) ==
    IF c.is_locked
    THEN [c EXCEPT !.current_unlock_progress = @ + 1,
                   !.is_locked = ~(c.current_unlock_progress + 1 >= c.unlock_matches_required)]
    ELSE c

\* _process_container_match: [state, matched].
process_container_match(state, ci) ==
    LET container == state.containers[ci]
    IN  IF ~front_is_match(container)
        THEN [state |-> state, matched |-> FALSE]
        ELSE LET cleared == [container EXCEPT !.slots =
                                [s \in Range0(container.slot_count) |->
                                    [container.slots[s] EXCEPT ![0] = None]]]
                 st1 == [state EXCEPT !.containers[ci] = cleared,
                                      !.match_count = @ + 1]
                 st2 == [st1 EXCEPT !.containers =
                            [k \in DOMAIN st1.containers |-> unlock_progress(st1.containers[k])]]
                 st3 == [st2 EXCEPT !.containers[ci] = check_and_advance_rows(st2.containers[ci])]
             IN  [state |-> st3, matched |-> TRUE]

\* Faulty variant of visit_container: the slot_count test is left out.
visit_any_container(state, ci) == process_container_match(state, ci)

\* Faulty variant of visit_container: locked containers are skipped.
visit_unlocked_container(state, ci) ==
    IF state.containers[ci].slot_count < 3 \/ state.containers[ci].is_locked
    THEN [state |-> state, matched |-> FALSE]
    ELSE process_container_match(state, ci)

\* One visit of the for loop of _process_all_matches.
visit_container(state, ci) ==
    IF state.containers[ci].slot_count < 3
    THEN [state |-> state, matched |-> FALSE]
    ELSE process_container_match(state, ci)

\* One pass over all containers from index ci on: [state, found, total].
RECURSIVE match_pass(_, _, _, _)
match_pass(state, ci, found, total) ==
    IF ci >= NumContainers(state)
    THEN [state |-> state, found |-> found, total |-> total]
    ELSE LET v == visit_container(state, ci)
         IN  match_pass(v.state, ci + 1, found \/ v.matched,
                        IF v.matched THEN total + 1 ELSE total)

\* The while True loop of _process_all_matches.
RECURSIVE match_loop(_, _)
match_loop(state, total) ==
    LET p == match_pass(state, 0, FALSE, total)
    IN  IF p.found THEN match_loop(p.state, p.total)
        ELSE [state |-> p.state, total |-> p.total]

\* _process_all_matches: [state, total].
process_all_matches(state) == match_loop(state, 0)


\* _would_match: some container of 3 or more slots has a complete same-type
\* front row.
would_match(state) ==
    \E ci \in DOMAIN state.containers :
        /\ state.containers[ci].slot_count >= 3
        /\ front_is_match(state.containers[ci])

(***************************************************************************)
(* Moves                                                                   *)
(***************************************************************************)
Move(from_container, from_slot, to_container, to_slot, item_id) ==
    [from_container |-> from_container, from_slot |-> from_slot,
     to_container |-> to_container, to_slot |-> to_slot,
     item_id |-> item_id]

\* Python's None where a Move is expected.
NoMove == Move(-1, -1, -1, -1, None)

\* Faulty variant of execute_move: the move is not counted.
execute_move_uncounted(state, move) ==
    LET st1 == [state EXCEPT
                  !.containers[move.from_container].slots[move.from_slot][0] = None]
        st2 == [st1 EXCEPT
                  !.containers[move.to_container].slots[move.to_slot][0] = move.item_id]
    IN  [st2 EXCEPT !.containers[move.from_container] =
            check_and_advance_rows(st2.containers[move.from_container])]

\* Faulty variant of execute_move: the rows of the source do not advance.
execute_move_unadvanced(state, move) ==
    LET st1 == [state EXCEPT
                  !.containers[move.from_container].slots[move.from_slot][0] = None]
        st2 == [st1 EXCEPT
                  !.containers[move.to_container].slots[move.to_slot][0] = move.item_id]
    IN  [st2 EXCEPT !.move_count = @ + 1]

\* Faulty variant of execute_move: the source cell keeps its item.
execute_move_copying(state, move) ==
    LET st2 == [state EXCEPT
                  !.containers[move.to_container].slots[move.to_slot][0] = move.item_id]
        st3 == [st2 EXCEPT !.move_count = @ + 1]
    IN  [st3 EXCEPT !.containers[move.from_container] =
            check_and_advance_rows(st3.containers[move.from_container])]

\* _execute_move: remove from source, place at destination, count the move,
\* check-advance the source.
execute_move(state, move) ==
    LET st1 == [state EXCEPT
                  !.containers[move.from_container].slots[move.from_slot][0] = None]
        st2 == [st1 EXCEPT
                  !.containers[move.to_container].slots[move.to_slot][0] = move.item_id]
        st3 == [st2 EXCEPT !.move_count = @ + 1]
    IN  [st3 EXCEPT !.containers[move.from_container] =
            check_and_advance_rows(st3.containers[move.from_container])]

\* The first empty front slot of a container, -1 when the front row is full.
first_empty_slot(c) ==
    IF \E s \in Range0(c.slot_count) : is_front_slot_empty(c, s)
    THEN CHOOSE s \in Range0(c.slot_count) :
            /\ is_front_slot_empty(c, s)
            /\ \A q \in Range0(s) : ~is_front_slot_empty(c, q)
    ELSE -1

\* empty_representatives of _get_all_valid_moves: for a completely empty
\* unlocked container, the first such container of the same slot_count.
empty_representative(state, ci) ==
    CHOOSE k \in DOMAIN state.containers :
        /\ ~state.containers[k].is_locked
        /\ container_is_empty(state.containers[k])
        /\ state.containers[k].slot_count = state.containers[ci].slot_count
        /\ \A j \in Range0(k) :
              ~(/\ ~state.containers[j].is_locked
                /\ container_is_empty(state.containers[j])
                /\ state.containers[j].slot_count = state.containers[ci].slot_count)

\* Faulty variant of destination_slot: the last empty front slot is offered.
destination_slot_last(state, to_ci) ==
    LET to_c == state.containers[to_ci]
    IN  IF to_c.is_locked THEN -1
        ELSE IF container_is_empty(to_c) /\ to_ci # empty_representative(state, to_ci)
        THEN -1
        ELSE IF \E s \in Range0(to_c.slot_count) : is_front_slot_empty(to_c, s)
        THEN CHOOSE s \in Range0(to_c.slot_count) :
                /\ is_front_slot_empty(to_c, s)
                /\ \A q \in Range0(to_c.slot_count) : q > s => ~is_front_slot_empty(to_c, q)
        ELSE -1

\* Faulty variant of destination_slot: no completely empty container is
\* offered.
destination_slot_occupied(state, to_ci) ==
    LET to_c == state.containers[to_ci]
    IN  IF to_c.is_locked THEN -1
        ELSE IF container_is_empty(to_c) THEN -1
        ELSE first_empty_slot(to_c)

\* Lines 791-802 for one destination: the to_slot of the moves into to_ci
\* (its first empty front slot), -1 when no move into to_ci is appended.
destination_slot(state, to_ci) ==
    LET to_c == state.containers[to_ci]
    IN  IF to_c.is_locked THEN -1
        ELSE IF container_is_empty(to_c) /\ to_ci # empty_representative(state, to_ci)
        THEN -1
        ELSE first_empty_slot(to_c)

\* The innermost loop (to_ci) of _get_all_valid_moves, from to_ci on; dest
\* is destination_slot for every container.
RECURSIVE moves_to(_, _, _, _, _)
moves_to(state, dest, from_ci, from_s, to_ci) ==
    IF to_ci >= NumContainers(state) THEN <<>>
    ELSE (IF to_ci # from_ci /\ dest[to_ci] >= 0
          THEN <<Move(from_ci, from_s, to_ci, dest[to_ci],
                      get_front_item(state.containers[from_ci], from_s))>>
          ELSE <<>>) \o moves_to(state, dest, from_ci, from_s, to_ci + 1)

\* The loop over the source slots of from_ci, from from_s on.
RECURSIVE moves_from_slot(_, _, _, _)
moves_from_slot(state, dest, from_ci, from_s) ==
    IF from_s >= state.containers[from_ci].slot_count THEN <<>>
    ELSE (IF get_front_item(state.containers[from_ci], from_s) = None THEN <<>>
          ELSE moves_to(state, dest, from_ci, from_s, 0))
         \o moves_from_slot(state, dest, from_ci, from_s + 1)

RECURSIVE moves_from_container(_, _, _)
\* Faulty variant of moves_from_container: locked sources are not skipped.
moves_from_any_container(state, dest, from_ci) ==
    IF from_ci >= NumContainers(state) THEN <<>>
    ELSE moves_from_slot(state, dest, from_ci, 0)
         \o moves_from_container(state, dest, from_ci + 1)

\* The loop over the source containers, from from_ci on.
moves_from_container(state, dest, from_ci) ==
    IF from_ci >= NumContainers(state) THEN <<>>
    ELSE (IF state.containers[from_ci].is_locked THEN <<>>
          ELSE moves_from_slot(state, dest, from_ci, 0))
         \o moves_from_container(state, dest, from_ci + 1)

\* _get_all_valid_moves: the list of moves, in enumeration order.
get_all_valid_moves(state) ==
    moves_from_container(
        state,
        [to_ci \in DOMAIN state.containers |-> destination_slot(state, to_ci)],
        0)

(***************************************************************************)
(* Utility                                                                 *)
(***************************************************************************)
\* Faulty variant of is_reversal_move: the item is not compared.
is_reversal_move_any_item(current, previous) ==
    /\ current.from_container = previous.to_container
    /\ current.to_container = previous.from_container

\* _is_reversal_move (lines 905-908).
is_reversal_move(current, previous) ==
    /\ current.item_id = previous.item_id
    /\ current.from_container = previous.to_container
    /\ current.to_container = previous.from_container

\* _get_items_that_would_advance, per slot: the first back-row item of the
\* slot, None when the slot has none.
would_advance_item(c, s) ==
    LET fnn == first_non_null(c.slots[s], c.max_rows)
    IN  IF fnn > 0 THEN c.slots[s][fnn] ELSE None

\* len(_get_items_that_would_advance(c))
would_advance_count(c) ==
    Cardinality({s \in Range0(c.slot_count) : would_advance_item(c, s) # None})

has_waiting_pair_for_item(state, item_id) ==
    \E ci \in DOMAIN state.containers :
        LET c == state.containers[ci]
        IN  /\ ~c.is_locked
            /\ c.slot_count >= 3
            /\ front_count(c, item_id) = 2
            /\ get_empty_front_slot_count(c) >= 1

\* The index of the first element of a sequence of integers that is maximal:
\* the head of the list after Python's stable sort by descending key.
FirstMax(keys) ==
    CHOOSE i \in 1..Len(keys) :
        /\ \A j \in 1..Len(keys) : keys[j] <= keys[i]
        /\ \A j \in 1..(i - 1) : keys[j] < keys[i]

(***************************************************************************)
(* 1-move match finding                                                    *)
(***************************************************************************)

\* reveal_score of a candidate of _find_one_move_match.
reveal_score(state, ci, oci) ==
    LET container == state.containers[ci]
        other == state.containers[oci]
        src == IF front_occupied(other) = 1 /\ has_back_row_items(other)
               THEN 100 + would_advance_count(other) * 20
                    + 50 * Cardinality({s \in Range0(other.slot_count) :
                            /\ would_advance_item(other, s) # None
                            /\ has_waiting_pair_for_item(state, would_advance_item(other, s))})
               ELSE 0
        dst == IF has_back_row_items(container)
               THEN 50 + would_advance_count(container) * 15
               ELSE 0
    IN  src + dst

\* The loop over the slots of the source container oci (line 733), from os
\* on: a sequence of [reveal_score, move].
RECURSIVE candidates_from_slot(_, _, _, _, _)
candidates_from_slot(state, ci, target_item, oci, os) ==
    IF os >= state.containers[oci].slot_count THEN <<>>
    ELSE (IF get_front_item(state.containers[oci], os) = target_item
          THEN <<[reveal_score |-> reveal_score(state, ci, oci),
                  move |-> Move(oci, os, ci, first_empty_slot(state.containers[ci]),
                                target_item)]>>
          ELSE <<>>) \o candidates_from_slot(state, ci, target_item, oci, os + 1)

\* The loop over the other containers (line 730), from oci on.
RECURSIVE candidates_from_other(_, _, _, _)
candidates_from_other(state, ci, target_item, oci) ==
    IF oci >= NumContainers(state) THEN <<>>
    ELSE (IF oci = ci \/ state.containers[oci].is_locked THEN <<>>
          ELSE candidates_from_slot(state, ci, target_item, oci, 0))
         \o candidates_from_other(state, ci, target_item, oci + 1)

RECURSIVE candidates_for_target(_, _, _)
\* Faulty variant of candidates_for_target: one item in the front row is
\* enough for a target.
candidates_for_single(state, ci, tpos) ==
    LET container == state.containers[ci]
        target_item == get_front_item(container, tpos)
    IN  IF tpos >= container.slot_count THEN <<>>
        ELSE (IF /\ target_item # None
                 /\ \A q \in Range0(tpos) : get_front_item(container, q) # target_item
                 /\ front_count(container, target_item) >= 1
              THEN candidates_from_other(state, ci, target_item, 0)
              ELSE <<>>) \o candidates_for_target(state, ci, tpos + 1)

\* The loop over counts.items() (line 725), in insertion order: the item
\* first seen at front slot tpos of ci is a target when it occurs at least
\* twice in the front row.
candidates_for_target(state, ci, tpos) ==
    LET container == state.containers[ci]
        target_item == get_front_item(container, tpos)
    IN  IF tpos >= container.slot_count THEN <<>>
        ELSE (IF /\ target_item # None
                 /\ \A q \in Range0(tpos) : get_front_item(container, q) # target_item
                 /\ front_count(container, target_item) >= 2
              THEN candidates_from_other(state, ci, target_item, 0)
              ELSE <<>>) \o candidates_for_target(state, ci, tpos + 1)

\* The loop over the destination containers (line 704), from ci on.
RECURSIVE candidates_for_container(_, _)
candidates_for_container(state, ci) ==
    LET container == state.containers[ci]
    IN  IF ci >= NumContainers(state) THEN <<>>
        ELSE (IF \/ container.is_locked
                 \/ container.slot_count < 3
                 \/ first_empty_slot(container) = -1
                 \/ front_occupied(container) < 2
              THEN <<>>
              ELSE candidates_for_target(state, ci, 0))
             \o candidates_for_container(state, ci + 1)

one_move_candidates(state) == candidates_for_container(state, 0)

\* _find_one_move_match: the first candidate of highest reveal_score, NoMove
\* when there is no candidate.
find_one_move_match(state) ==
    LET candidates == one_move_candidates(state)
    IN  IF candidates = <<>> THEN NoMove
        ELSE candidates[FirstMax([i \in 1..Len(candidates) |->
                                     candidates[i].reveal_score])].move

(***************************************************************************)
(* Strategies.  A weight is held in hundredths (1.4 is 140).               *)
(***************************************************************************)
SolverStrategy(name, pair_weight, reveal_weight, caution_weight, noise_magnitude) ==
    [name |-> name, pair_weight |-> pair_weight, reveal_weight |-> reveal_weight,
     caution_weight |-> caution_weight, noise_magnitude |-> noise_magnitude]

\* A name is the pair of the base name and the noise run ("Balanced_n2" is
\* <<"Balanced", 2>>, "Balanced" is <<"Balanced", 0>>).
BALANCED == SolverStrategy(<<"Balanced", 0>>, 100, 100, 100, 0)
PAIR_FOCUSED == SolverStrategy(<<"PairFocused", 0>>, 140, 85, 100, 0)
REVEAL_FOCUSED == SolverStrategy(<<"RevealFocused", 0>>, 85, 140, 100, 0)
CAUTIOUS == SolverStrategy(<<"Cautious", 0>>, 100, 90, 160, 0)
AGGRESSIVE == SolverStrategy(<<"Aggressive", 0>>, 110, 130, 50, 0)
ALL_STRATEGIES == <<BALANCED, PAIR_FOCUSED, REVEAL_FOCUSED, CAUTIOUS, AGGRESSIVE>>

\* strategy=None of solve_level and _find_best_move.
NoStrategy == SolverStrategy(<<"None", 0>>, 100, 100, 100, 0)

\* The noise_magnitude default of solve_level_best.
NOISE_MAGNITUDE == 8

\* The strategy of a noise restart of solve_level_best.
noise_strategy(strat, run) ==
    SolverStrategy(<<strat.name[1], run>>, strat.pair_weight, strat.reveal_weight,
                   strat.caution_weight, NOISE_MAGNITUDE)

\* Integer division truncating toward zero, as Python's int() of a float.
TruncDiv(n, d) == IF n >= 0 THEN n \div d ELSE -((-n) \div d)

\* int(contrib * (weight - 1.0)) in IEEE double arithmetic, for contrib a
\* multiple of 5.  1.4 - 1.0 and 0.9 - 1.0 are doubles just short (in
\* magnitude) of 0.4 and -0.1, so a product that would be a whole number
\* falls short of it and truncates one lower in magnitude; the differences
\* of the other weights used (0.85, 1.1, 1.3, 1.6, 0.5, 1.0) are exact or
\* just beyond, and truncate as the exact product does.
weight_adjust(contrib, weight) ==
    LET p == contrib * (weight - 100)
        q == TruncDiv(p, 100)
    IN  IF weight \in {140, 90} /\ p # 0 /\ p % 100 = 0
        THEN (IF q > 0 THEN q - 1 ELSE q + 1)
        ELSE q

(***************************************************************************)
(* Item accessibility                                                      *)
(***************************************************************************)
near_unlock(c) ==
    c.is_locked /\ c.unlock_matches_required - c.current_unlock_progress <= 2

near_advance(c) ==
    ~c.is_locked /\ front_occupied(c) <= 1 /\ has_back_row_items(c)

\* The cells (ci, s, r) of the board holding item_id.
cells_of(state, item_id) ==
    UNION {{<<ci, sr[1], sr[2]>> :
              sr \in {x \in Range0(state.containers[ci].slot_count)
                              \X Range0(state.containers[ci].max_rows) :
                        state.containers[ci].slots[x[1]][x[2]] = item_id}} :
           ci \in DOMAIN state.containers}

\* _analyze_item_accessibility, for one item type: [acc, near, total]
\* ((0, 0, 0) when the item is not on the board, as item_status.get does).
item_status(state, item_id) ==
    LET cells == cells_of(state, item_id)
        accs == {x \in cells : x[3] = 0 /\ ~state.containers[x[1]].is_locked}
        nears == {x \in cells \ accs :
                    \/ x[3] = 0 /\ near_unlock(state.containers[x[1]])
                    \/ x[3] = 1 /\ near_advance(state.containers[x[1]])}
    IN  [acc |-> Cardinality(accs), near |-> Cardinality(nears),
         total |-> Cardinality(cells)]

(***************************************************************************)
(* Move scoring                                                            *)
(***************************************************************************)

\* The number of front cells of unlocked containers holding item_type.
unlocked_front_count(state, item_type) ==
    SumTo([ci \in DOMAIN state.containers |->
              IF state.containers[ci].is_locked THEN 0
              ELSE front_count(state.containers[ci], item_type)],
          NumContainers(state))

\* The empty front slots of the unlocked containers.
total_empty_slots(state) ==
    SumTo([ci \in DOMAIN state.containers |->
              IF state.containers[ci].is_locked THEN 0
              ELSE get_empty_front_slot_count(state.containers[ci])],
          NumContainers(state))

near_unlock_count(state) ==
    Cardinality({ci \in DOMAIN state.containers : near_unlock(state.containers[ci])})

\* Whether some item type occurs at least twice among the items that would
\* advance in c.
advance_has_pair(c) ==
    \E s1 \in Range0(c.slot_count) : \E s2 \in Range0(c.slot_count) :
        /\ s1 < s2
        /\ would_advance_item(c, s1) # None
        /\ would_advance_item(c, s1) = would_advance_item(c, s2)

\* Whether the front items of c other than the one at from_slot hold some
\* type at least twice.
remaining_has_pair(c, from_slot) ==
    \E s1 \in Range0(c.slot_count) : \E s2 \in Range0(c.slot_count) :
        /\ s1 < s2 /\ s1 # from_slot /\ s2 # from_slot
        /\ get_front_item(c, s1) # None
        /\ get_front_item(c, s1) = get_front_item(c, s2)

\* The values the sections of _score_move_unified share (lines 430-444):
\* the two containers, the accessibility of the item, the destination
\* counts, and the board after the move with whether it holds a match.
move_facts(state, move, status, test_state) ==
    [from_c |-> state.containers[move.from_container],
     to_c |-> state.containers[move.to_container],
     acc |-> status.acc,
     near |-> status.near,
     is_actionable |-> (status.acc + status.near) >= 2,
     n_dest |-> front_occupied(state.containers[move.to_container]),
     matching_at_dest |-> front_count(state.containers[move.to_container], move.item_id),
     from_occupied |-> front_occupied(state.containers[move.from_container]),
     triggering_reveal |->
        /\ front_occupied(state.containers[move.from_container]) = 1
        /\ has_back_row_items(state.containers[move.from_container]),
     test_state |-> test_state,
     creates_match |-> would_match(test_state)]

\* Line 450: the follow-up move, looked for when the move creates no match.
follow_up_of(f) ==
    IF f.creates_match THEN NoMove ELSE find_one_move_match(f.test_state)

\* Lines 462-467: the bonus when the follow-up triggers a row advance.
fu_reveal_bonus(fu_from_c) ==
    IF front_occupied(fu_from_c) = 1 /\ has_back_row_items(fu_from_c)
    THEN 20 + would_advance_count(fu_from_c) * 10
    ELSE 0

\* Lines 470-477: the bonus when the follow-up chains into another match.
fu_chain_bonus(test_state, follow_up) ==
    IF find_one_move_match(
           process_all_matches(execute_move(test_state, follow_up)).state) # NoMove
    THEN 15 ELSE 0

\* MATCH-ENABLING BONUSES (lines 442-477).
match_enabling(f, follow_up) ==
    LET has_follow_up == ~f.creates_match /\ follow_up # NoMove
    IN  [has_follow_up |-> has_follow_up,
         enables_pair |-> has_follow_up /\ f.matching_at_dest >= 1,
         enables_temp |-> has_follow_up /\ f.matching_at_dest < 1 /\ f.n_dest # 0,
         bonus |-> IF f.creates_match THEN 200
                   ELSE IF ~has_follow_up THEN 0
                   ELSE IF f.matching_at_dest >= 1 THEN 120
                   ELSE IF f.n_dest = 0 THEN 80
                   ELSE 40,
         fu_reveal |-> IF has_follow_up
                       THEN fu_reveal_bonus(f.test_state.containers[follow_up.from_container])
                       ELSE 0,
         fu_chain |-> IF has_follow_up THEN fu_chain_bonus(f.test_state, follow_up)
                      ELSE 0]

\* Lines 508-513: every other type in the destination front row has three
\* items in unlocked front rows after the move.
room_will_open(move, f) ==
    LET non_matching == {get_front_item(f.to_c, s) : s \in Range0(f.to_c.slot_count)}
                            \ {None, move.item_id}
    IN  /\ non_matching # {}
        /\ \A item_type \in non_matching :
              unlocked_front_count(f.test_state, item_type) >= 3

\* PAIRING BONUS (lines 479-526): the pair subtotal, the 'mixes items'
\* penalty and pair_room_will_open.
pairing_bonus(move, f, e) ==
    LET pairing == f.matching_at_dest = 1 /\ ~e.enables_pair
        third_accessible == f.acc >= 3
        third_nearly == (f.acc + f.near) >= 3
        has_room_for_third == get_empty_front_slot_count(f.to_c) >= 2
    IN  [pair |->
            IF ~pairing THEN 0
            ELSE IF third_accessible /\ has_room_for_third THEN 180
            ELSE IF third_accessible /\ ~has_room_for_third THEN -50
            ELSE IF third_nearly /\ has_room_for_third
                 THEN (IF move.item_id \in get_back_row_item_types(f.to_c)
                       THEN -200 ELSE 100)
            ELSE IF ~third_accessible /\ has_room_for_third
                 THEN 20 + (IF has_back_row_items(f.to_c) THEN -80 ELSE 0)
            ELSE IF room_will_open(move, f) THEN 30
            ELSE -100,
         pair_room_will_open |->
            /\ pairing /\ ~third_accessible /\ ~has_room_for_third
            /\ room_will_open(move, f),
         mixes |->
            IF ~pairing /\ f.matching_at_dest = 0 /\ f.n_dest > 0 /\ ~e.enables_temp
            THEN -10 ELSE 0]

\* SELF-BLOCKING PAIR PENALTY (lines 528-533).
self_blocking(move, f, e) ==
    IF f.matching_at_dest >= 1 /\ e.enables_pair
       /\ move.item_id \in get_back_row_item_types(f.to_c)
    THEN -200 ELSE 0

\* ACTIONABILITY (lines 535-544): the bonus of an actionable item.
actionable_bonus(f) == IF f.is_actionable THEN 30 ELSE 0

\* ACTIONABILITY: the 'stuck item shuffle' penalty.
stuck_penalty(f, e) ==
    IF ~f.is_actionable /\ ~(f.creates_match \/ e.has_follow_up) THEN -40 ELSE 0

\* PAIR DESTRUCTION PENALTY (lines 546-566).
pair_destruction(move, f) ==
    IF front_count(f.from_c, move.item_id) = 2 /\ ~(f.matching_at_dest = 2) /\ f.acc >= 3
    THEN (IF get_empty_front_slot_count(f.from_c) >= 1 THEN -150 ELSE -30)
    ELSE 0

\* ROW ADVANCEMENT BONUS (lines 568-596).
row_advancement(state, f) ==
    IF f.triggering_reveal
    THEN 100 + would_advance_count(f.from_c) * 25
         + (IF \E s \in Range0(f.from_c.slot_count) :
                  /\ would_advance_item(f.from_c, s) # None
                  /\ has_waiting_pair_for_item(state, would_advance_item(f.from_c, s))
            THEN 80 ELSE 0)
         + (IF f.matching_at_dest = 1 /\ f.acc >= 3 THEN 60
            ELSE IF f.matching_at_dest = 1 /\ (f.acc + f.near) >= 3 THEN 50
            ELSE 0)
    ELSE IF has_back_row_items(f.from_c)
    THEN 30 + get_back_row_item_count(f.from_c) * 10
    ELSE 0

\* SOURCE PAIR BONUS (lines 598-623).
source_pair(move, f) ==
    IF f.triggering_reveal
    THEN (IF advance_has_pair(f.from_c) THEN 40 ELSE 0)
    ELSE IF f.from_occupied > 1
    THEN (IF remaining_has_pair(f.from_c, move.from_slot) THEN 25 ELSE 0)
    ELSE 0

\* DESTINATION QUALITY (lines 625-629).
fills_container(f, p) ==
    IF get_empty_front_slot_count(f.to_c) <= 1 /\ ~p.pair_room_will_open
    THEN -15 ELSE 0

\* DEADLOCK PREVENTION (lines 631-657) on the board after the move and its
\* matches.
deadlock_penalty(deadlock_test) ==
    LET empties == total_empty_slots(deadlock_test.state)
        unlocks == near_unlock_count(deadlock_test.state)
    IN  IF deadlock_test.total # 0 THEN 0
        ELSE IF empties = 0 /\ unlocks = 0 THEN -500
        ELSE IF empties = 0 /\ unlocks > 0 THEN -150
        ELSE IF empties = 1 /\ unlocks = 0 THEN -100
        ELSE IF empties <= 2 /\ unlocks = 0 THEN -30
        ELSE 0

\* STAGING MOVE (lines 659-667): the bonus of a productive staging move.
staging_bonus(f) ==
    IF f.n_dest = 0 /\ f.matching_at_dest = 0 /\ f.triggering_reveal THEN 20 ELSE 0

\* STAGING MOVE: the penalty of a pure staging move.
staging_penalty(f) ==
    IF f.n_dest = 0 /\ f.matching_at_dest = 0 /\ ~f.triggering_reveal THEN -5 ELSE 0

\* MATCH-IN-PLACE CONSIDERATION (lines 669-675).
disrupts_match_in_place(f) ==
    IF get_empty_front_slot_count(f.from_c) >= 2 /\ f.is_actionable
       /\ f.matching_at_dest = 0 /\ ~f.triggering_reveal
    THEN -35 ELSE 0

\* MATCH-AT-REVEALING-CONTAINER BONUS (lines 677-689).
triple_reveal_bonus(move, f) ==
    IF /\ has_back_row_items(f.to_c)
       /\ f.matching_at_dest >= 1
       /\ (f.matching_at_dest >= 2 \/ (f.matching_at_dest = 1 /\ f.acc >= 3))
    THEN 50 + get_back_row_item_count(f.to_c) * 20
         + (IF get_back_row_item_types(f.to_c) \ {move.item_id} # {} THEN 30 ELSE 0)
    ELSE 0

\* The score and the three category subtotals.
score_totals(uncategorized, pair_contrib, reveal_contrib, penalty_contrib) ==
    [score |-> uncategorized + pair_contrib + reveal_contrib + penalty_contrib,
     pair_contrib |-> pair_contrib,
     reveal_contrib |-> reveal_contrib,
     penalty_contrib |-> penalty_contrib]

\* The sections after PAIRING BONUS, which read pair_room_will_open.
score_sections(state, move, f, e, p) ==
    score_totals(
        e.bonus + actionable_bonus(f) + staging_bonus(f),
        p.pair + self_blocking(move, f, e) + pair_destruction(move, f)
            + source_pair(move, f),
        e.fu_reveal + e.fu_chain + row_advancement(state, f)
            + triple_reveal_bonus(move, f),
        p.mixes + stuck_penalty(f, e) + fills_container(f, p)
            + deadlock_penalty(process_all_matches(f.test_state))
            + staging_penalty(f) + disrupts_match_in_place(f))

\* The sections after MATCH-ENABLING BONUSES, which read its reasons.
score_enabled(state, move, f, e) ==
    score_sections(state, move, f, e, pairing_bonus(move, f, e))

\* The score of a move whose shared values are f.
score_facts(state, move, f) ==
    score_enabled(state, move, f, match_enabling(f, follow_up_of(f)))

\* _score_move_unified before the strategy weights: the score and the three
\* category subtotals.
score_parts(state, move) ==
    score_facts(state, move,
                move_facts(state, move, item_status(state, move.item_id),
                           execute_move(state, move)))

\* The strategy weight adjustments of lines 691-694.
weighted_score(p, strategy) ==
    IF strategy = NoStrategy THEN p.score
    ELSE p.score + weight_adjust(p.pair_contrib, strategy.pair_weight)
                 + weight_adjust(p.reveal_contrib, strategy.reveal_weight)
                 + weight_adjust(p.penalty_contrib, strategy.caution_weight)

\* _score_move_unified: the score after the strategy weight adjustments.
score_move_unified(state, move, strategy) ==
    weighted_score(score_parts(state, move), strategy)

(***************************************************************************)
(* Move finding                                                            *)
(***************************************************************************)

\* The key "item:from->to" of a move in recent_set.
pattern_key(item_id, from_container, to_container) ==
    <<item_id, from_container, to_container>>

\* RULES 4-6 of _find_best_move for one move: the score with the reversal
\* and pattern penalties, before noise.
penalized_score(state, move, last_move, recent_moves, strategy) ==
    LET recent_set == {pattern_key(recent_moves[i].item_id,
                                   recent_moves[i].from_container,
                                   recent_moves[i].to_container) :
                          i \in 1..Len(recent_moves)}
        reverse_key == pattern_key(move.item_id, move.to_container, move.from_container)
    IN  score_move_unified(state, move, strategy)
        - (IF last_move # NoMove /\ is_reversal_move(move, last_move) THEN 1000 ELSE 0)
        - (IF reverse_key \in recent_set THEN 500 ELSE 0)

\* noise_rng = None, and the random.Random(noise_seed) of solve_level.
NoRng == <<"None", 0>>
Random(noise_seed) == <<"Random", noise_seed>>

\* Whether _find_best_move draws noise for each candidate.
noise_applies(strategy, noise_rng) ==
    noise_rng # NoRng /\ strategy # NoStrategy /\ strategy.noise_magnitude > 0

\* The indices that can head the list after the noise draws and the stable
\* descending sort.  Each candidate's draw is any integer of
\* -magnitude..magnitude, independently; index i can come first exactly when
\* it does so with its own draw highest and every other draw lowest.
noisy_first(keys, magnitude) ==
    {i \in 1..Len(keys) :
        /\ \A j \in 1..(i - 1) : keys[j] - magnitude < keys[i] + magnitude
        /\ \A j \in (i + 1)..Len(keys) : keys[j] - magnitude <= keys[i] + magnitude}

\* _find_best_move: the moves it can return (NoMove for None).  The set is a
\* singleton unless noise is drawn.
find_best_move(state, last_move, recent_moves, strategy, noise_rng) ==
    LET one_move == find_one_move_match(state)
    IN  IF one_move # NoMove THEN {one_move}
        ELSE LET all_moves == get_all_valid_moves(state)
                 scores == [i \in 1..Len(all_moves) |->
                               penalized_score(state, all_moves[i], last_move,
                                               recent_moves, strategy)]
             IN  IF all_moves = <<>> THEN {NoMove}
                 ELSE IF noise_applies(strategy, noise_rng)
                 THEN {all_moves[i] : i \in noisy_first(scores, strategy.noise_magnitude)}
                 ELSE {all_moves[FirstMax(scores)]}

(***************************************************************************)
(* State initialization                                                    *)
(***************************************************************************)

\* The loop placing initial_items: an item outside the grid is skipped.
RECURSIVE place_initial_items(_, _, _)
place_initial_items(c, items, i) ==
    IF i > Len(items) THEN c
    ELSE LET s == items[i].slot
             r == items[i].row
         IN  place_initial_items(
                 IF 0 <= s /\ s < c.slot_count /\ 0 <= r /\ r < c.max_rows
                 THEN [c EXCEPT !.slots[s][r] = items[i].id]
                 ELSE c,
                 items, i + 1)

\* Faulty variant of initialize_state: the declared counts are taken as
\* they are.
initialize_state_uncoerced(level_dict) ==
    [containers |->
        [ci \in Range0(Len(level_dict.containers)) |->
            LET cdef == level_dict.containers[ci + 1]
            IN  place_initial_items(
                    ContainerState(cdef.id, cdef.slot_count, cdef.max_rows_per_slot,
                                   cdef.is_locked, cdef.unlock_matches_required),
                    cdef.initial_items, 1)],
     move_count |-> 0,
     match_count |-> 0]

\* dict.get(key, default).
get(d, key, default) == IF key \in DOMAIN d THEN d[key] ELSE default

\* _initialize_state: the GameState of a level dict.
initialize_state(level_dict) ==
    [containers |->
        [ci \in Range0(Len(get(level_dict, "containers", <<>>))) |->
            LET cdef == level_dict.containers[ci + 1]
                declared_slots == get(cdef, "slot_count", 3)
                declared_rows == get(cdef, "max_rows_per_slot", 4)
                slot_count == IF declared_slots <= 0 THEN 3 ELSE declared_slots
                max_rows == IF declared_rows <= 0 THEN 4 ELSE declared_rows
            IN  place_initial_items(
                    ContainerState(get(cdef, "id", ""), slot_count, max_rows,
                                   get(cdef, "is_locked", FALSE),
                                   get(cdef, "unlock_matches_required", 0)),
                    get(cdef, "initial_items", <<>>), 1)],
     move_count |-> 0,
     match_count |-> 0]

(***************************************************************************)
(* solve_level.  A run is the record of the locals of one call:            *)
(*   pc               "loop" at the while test, "done" after the return    *)
(*   effective_limit, noise_rng, state, last_move, recent_moves,           *)
(*   new_matches      the last value returned by _process_all_matches      *)
(*   result           the SolveResult                                      *)
(***************************************************************************)
SolveResult ==
    [success |-> FALSE, total_moves |-> 0, total_matches |-> 0,
     move_sequence |-> <<>>, failure_reason |-> "", items_remaining |-> 0]

\* Faulty variant of solve_begin: the noise generator is always created.
solve_begin_seeded(level_dict, strategy, noise_seed, move_limit) ==
    [pc |-> "loop",
     effective_limit |-> IF move_limit > 0 THEN move_limit ELSE MAX_MOVES,
     noise_rng |-> Random(noise_seed),
     state |-> process_all_matches(initialize_state(level_dict)).state,
     last_move |-> NoMove,
     recent_moves |-> <<>>,
     new_matches |-> 0,
     result |-> SolveResult]

\* Lines 224-244: the run at its first while test.  _initialize_state
\* returns a GameState on each of its paths, so the 'Failed to initialize
\* state' return of lines 235-238 is not taken.
solve_begin(level_dict, strategy, noise_seed, move_limit) ==
    LET started == process_all_matches(initialize_state(level_dict))
    IN  [pc |-> "loop",
         effective_limit |-> IF move_limit > 0 THEN move_limit ELSE MAX_MOVES,
         noise_rng |-> IF strategy # NoStrategy /\ strategy.noise_magnitude > 0
                       THEN Random(noise_seed) ELSE NoRng,
         state |-> started.state,
         last_move |-> NoMove,
         recent_moves |-> <<>>,
         new_matches |-> 0,
         result |-> SolveResult]

\* Faulty variant of loop_continues: a move is still made at the limit.
loop_continues_inclusive(run) ==
    ~is_complete(run.state) /\ run.state.move_count <= run.effective_limit

\* The while test of line 246.
loop_continues(run) ==
    ~is_complete(run.state) /\ run.state.move_count < run.effective_limit

\* Faulty variant of solve_no_moves: the reason carries no item count.
solve_no_moves_uncounted(run) ==
    [run EXCEPT !.pc = "done",
                !.result.failure_reason = "No valid moves",
                !.result.total_moves = run.state.move_count,
                !.result.total_matches = run.state.match_count]

\* Lines 250-255: the return of the 'No valid moves' result.
solve_no_moves(run) ==
    [run EXCEPT !.pc = "done",
                !.result.failure_reason = "No valid moves",
                !.result.items_remaining = get_total_item_count(run.state),
                !.result.total_moves = run.state.move_count,
                !.result.total_matches = run.state.match_count]

\* Faulty variant of solve_iteration: the move is not recorded.
solve_iteration_unrecorded(run, best) ==
    LET moved == execute_move(run.state, best)
        appended == Append(run.recent_moves, best)
        windowed == IF Len(appended) > PATTERN_WINDOW THEN Tail(appended) ELSE appended
        processed == process_all_matches(moved)
    IN  [run EXCEPT !.state = processed.state,
                    !.last_move = IF processed.total > 0 THEN NoMove ELSE best,
                    !.recent_moves = IF processed.total > 0 THEN <<>> ELSE windowed,
                    !.new_matches = processed.total]

\* Faulty variant of solve_iteration: recent_moves is never shortened.
solve_iteration_unbounded(run, best) ==
    LET moved == execute_move(run.state, best)
        processed == process_all_matches(moved)
    IN  [run EXCEPT !.state = processed.state,
                    !.result.move_sequence = Append(@, best),
                    !.last_move = IF processed.total > 0 THEN NoMove ELSE best,
                    !.recent_moves = IF processed.total > 0 THEN <<>>
                                     ELSE Append(run.recent_moves, best),
                    !.new_matches = processed.total]

\* Lines 257-268: one iteration of the loop executing the move best.
solve_iteration(run, best) ==
    LET moved == execute_move(run.state, best)
        appended == Append(run.recent_moves, best)
        windowed == IF Len(appended) > PATTERN_WINDOW THEN Tail(appended) ELSE appended
        processed == process_all_matches(moved)
    IN  [run EXCEPT !.state = processed.state,
                    !.result.move_sequence = Append(@, best),
                    !.last_move = IF processed.total > 0 THEN NoMove ELSE best,
                    !.recent_moves = IF processed.total > 0 THEN <<>> ELSE windowed,
                    !.new_matches = processed.total]

\* Faulty variant of solve_return: the limit branch sets no failure reason.
solve_return_silent(run) ==
    [run EXCEPT !.pc = "done",
                !.result.success = is_complete(run.state),
                !.result.total_moves = run.state.move_count,
                !.result.total_matches = run.state.match_count]

\* Lines 270-280: the return after the loop.
solve_return(run) ==
    IF is_complete(run.state)
    THEN [run EXCEPT !.pc = "done",
                     !.result.success = TRUE,
                     !.result.total_moves = run.state.move_count,
                     !.result.total_matches = run.state.match_count]
    ELSE [run EXCEPT !.pc = "done",
                     !.result.failure_reason = "Max moves exceeded",
                     !.result.total_moves = run.state.move_count,
                     !.result.total_matches = run.state.match_count]

\* The moves _find_best_move can return to the loop of a run.
run_best_moves(run, strategy) ==
    find_best_move(run.state, run.last_move, run.recent_moves, strategy, run.noise_rng)

\* The runs that can follow a run at its while test (lines 246-280).
run_next(run, strategy) ==
    IF run.pc # "loop" THEN {run}
    ELSE IF ~loop_continues(run) THEN {solve_return(run)}
    ELSE {IF best = NoMove THEN solve_no_moves(run) ELSE solve_iteration(run, best) :
            best \in run_best_moves(run, strategy)}

(***************************************************************************)
(* Level records given to the solver.                                      *)
(***************************************************************************)
Shape(slot_count, max_rows, is_locked, unlock_matches_required) ==
    [slot_count |-> slot_count, max_rows_per_slot |-> max_rows,
     is_locked |-> is_locked, unlock_matches_required |-> unlock_matches_required]

Unlocked(slot_count, max_rows) == Shape(slot_count, max_rows, FALSE, 0)
Locked(slot_count, max_rows, unlock_matches_required) ==
    Shape(slot_count, max_rows, TRUE, unlock_matches_required)

\* The cells <<i, slot, row>> of a layout (a sequence of shapes).
LayoutCells(layout) ==
    UNION {{<<i, s, r>> : s \in Range0(layout[i].slot_count),
                          r \in Range0(layout[i].max_rows_per_slot)} :
           i \in 1..Len(layout)}

\* The initial_items list of container i of a layout under a filling of its
\* cells: one {id, row, slot} per occupied cell, slot by slot, front first.
RECURSIVE items_of_fill(_, _, _, _)
items_of_fill(layout, fill, i, k) ==
    IF k >= layout[i].slot_count * layout[i].max_rows_per_slot THEN <<>>
    ELSE LET s == k \div layout[i].max_rows_per_slot
             r == k % layout[i].max_rows_per_slot
         IN  (IF fill[<<i, s, r>>] # None
              THEN <<[id |-> fill[<<i, s, r>>], row |-> r, slot |-> s]>>
              ELSE <<>>) \o items_of_fill(layout, fill, i, k + 1)

\* The level record of a layout and a filling.
LevelOf(layout, fill) ==
    [containers |->
        [i \in 1..Len(layout) |->
            [id |-> i, slot_count |-> layout[i].slot_count,
             max_rows_per_slot |-> layout[i].max_rows_per_slot,
             is_locked |-> layout[i].is_locked,
             unlock_matches_required |-> layout[i].unlock_matches_required,
             initial_items |-> items_of_fill(layout, fill, i, 0)]]]

\* A filling made of whole triples: every item type occurs a multiple of 3
\* times.
WholeTriples(layout, fill) ==
    \A item \in Items :
        Cardinality({x \in LayoutCells(layout) : fill[x] = item}) % 3 = 0

\* Item types are interchangeable, so one filling per renaming is kept: in
\* the order container, slot, row, type k + 1 first occurs after type k.
CellBefore(x, y) ==
    \/ x[1] < y[1]
    \/ x[1] = y[1] /\ x[2] < y[2]
    \/ x[1] = y[1] /\ x[2] = y[2] /\ x[3] < y[3]

TypesInOrder(layout, fill) ==
    \A y \in LayoutCells(layout) :
        fill[y] > 1 =>
            \E x \in LayoutCells(layout) : CellBefore(x, y) /\ fill[x] = fill[y] - 1

\* The fillings extending fill by the item types t, t + 1, ... on the cells
\* free: type t takes a non-empty set of cells of a multiple of 3 behind the
\* first cell of type t - 1, or no type from t on is used.
RECURSIVE fills_from(_, _, _, _)
fills_from(layout, fill, free, t) ==
    IF t > NumItemTypes THEN {fill}
    ELSE {fill} \cup
         UNION {fills_from(layout,
                           [x \in LayoutCells(layout) |-> IF x \in S THEN t ELSE fill[x]],
                           free \ S, t + 1) :
                  S \in {S \in SUBSET free :
                            /\ S # {}
                            /\ Cardinality(S) % 3 = 0
                            /\ t > 1 =>
                                  \E x \in LayoutCells(layout) :
                                      /\ fill[x] = t - 1
                                      /\ \A y \in S : CellBefore(x, y)}}

\* The fillings of a layout by whole triples, up to renaming: the fillings
\* fill of [LayoutCells(layout) -> Cell] with WholeTriples(layout, fill) and
\* TypesInOrder(layout, fill), built type by type.
Fills(layout) ==
    fills_from(layout, [x \in LayoutCells(layout) |-> None], LayoutCells(layout), 1)

\* The levels of a layout.
LevelsOf(layout) == {LevelOf(layout, fill) : fill \in Fills(layout)}

\* Two 3-slot containers and a 1-slot container, one row.
OpenLevels == LevelsOf(<<Unlocked(3, 1), Unlocked(3, 1), Unlocked(1, 1)>>)

\* A 3-slot container with a hidden row and a 1-slot container.
DeepLevels == LevelsOf(<<Unlocked(3, 2), Unlocked(1, 1)>>)

\* A locked 3-slot container beside an unlocked 3-slot and 1-slot container.
LockedLayout(n) == <<Unlocked(3, 1), Unlocked(1, 1), Locked(3, 1, n)>>
LockedLevels ==
    {LevelOf(LockedLayout(n), fill) :
        n \in 1..MaxUnlock, fill \in Fills(LockedLayout(1))}

\* A locked 1-slot container beside a 3-slot and a deep 1-slot container.
SingleLayout(n) == <<Unlocked(3, 1), Unlocked(1, 2), Locked(1, 1, n)>>
SingleLevels ==
    {LevelOf(SingleLayout(n), fill) :
        n \in 1..MaxUnlock, fill \in Fills(SingleLayout(1))}

\* Three 3-slot containers of one row (the layout of the tutorial level).
TutorialLevels == LevelsOf(<<Unlocked(3, 1), Unlocked(3, 1), Unlocked(3, 1)>>)

\* A single 3-slot container with a hidden row: no move is possible.
CascadeLayout == <<Unlocked(3, 2)>>
CascadeLevels == LevelsOf(CascadeLayout)

\* Three items of one type that the solver keeps moving up to its limit.
WanderingLayout == <<Unlocked(3, 2), Unlocked(1, 1)>>
WanderingLevel ==
    LevelOf(WanderingLayout,
            [x \in LayoutCells(WanderingLayout) |->
                IF x \in {<<1, 2, 0>>, <<1, 2, 1>>, <<2, 0, 0>>} THEN 1 ELSE None])

DetStrategies ==
    {NoStrategy, BALANCED, PAIR_FOCUSED, REVEAL_FOCUSED, CAUTIOUS, AGGRESSIVE}

NoisyStrategies == {noise_strategy(BALANCED, 1)}

\* The level-1 tutorial of generate_level (lines 461-477): [a,a,_], [b,b,_],
\* [a,b,_] in three 3-slot containers of one row.
TutorialLayout == <<Unlocked(3, 1), Unlocked(3, 1), Unlocked(3, 1)>>
TutorialLevel ==
    LevelOf(TutorialLayout,
            [x \in LayoutCells(TutorialLayout) |->
                CASE x \in {<<1, 0, 0>>, <<1, 1, 0>>, <<3, 0, 0>>} -> 1
                  [] x \in {<<2, 0, 0>>, <<2, 1, 0>>, <<3, 1, 0>>} -> 2
                  [] OTHER -> None])

\* Every strategy: none, the five named ones and their noisy variants.
EveryStrategy ==
    DetStrategies \cup {noise_strategy(ALL_STRATEGIES[i], 1) : i \in DOMAIN ALL_STRATEGIES}

Input(lv, strat, seed, limit) ==
    [level |-> lv, strategy |-> strat, noise_seed |-> seed, move_limit |-> limit]

\* The calls of solve_level explored.  Levels that cannot wander are solved
\* under the default limit (move_limit = 0) too; the others, and the noisy
\* strategies, under the limits 1..MaxMoveLimit.
SolveInputs ==
    {Input(lv, strat, 0, 0) : lv \in OpenLevels \cup CascadeLevels,
                              strat \in DetStrategies}
    \cup {Input(WanderingLevel, BALANCED, 0, 0)}
    \cup {Input(lv, BALANCED, 0, 0) : lv \in TutorialLevels}
    \cup {Input(TutorialLevel, strat, seed, 0) :
            strat \in EveryStrategy, seed \in 0..MaxSeed}
    \cup {Input(lv, strat, 0, limit) :
            lv \in OpenLevels \cup DeepLevels \cup LockedLevels \cup SingleLevels,
            strat \in DetStrategies, limit \in 1..MaxMoveLimit}
    \cup {Input(lv, strat, seed, limit) :
            lv \in OpenLevels \cup DeepLevels \cup LockedLevels \cup SingleLevels,
            strat \in NoisyStrategies, seed \in 1..MaxSeed, limit \in 1..MaxMoveLimit}

\* The calls of solve_level repeated with another seed: strategies without
\* noise, two seeds.
TwinInputs ==
    {Input(lv, strat, 0, 0) : lv \in OpenLevels, strat \in DetStrategies}
    \cup {Input(lv, strat, 0, MaxMoveLimit) :
            lv \in DeepLevels \cup SingleLevels, strat \in DetStrategies}

\* The boards given to _process_all_matches.
DeepLockedLayout(n) == <<Unlocked(3, 2), Locked(3, 1, n)>>
OpenLockedLayout(n) == <<Unlocked(3, 1), Locked(3, 1, n), Unlocked(1, 1)>>
MatchLevels ==
    CascadeLevels
    \cup {LevelOf(DeepLockedLayout(n), fill) :
            n \in 1..MaxUnlock, fill \in Fills(DeepLockedLayout(1))}
    \cup {LevelOf(OpenLockedLayout(n), fill) :
            n \in 1..MaxUnlock, fill \in Fills(OpenLockedLayout(1))}
    \cup LevelsOf(<<Unlocked(3, 1), Unlocked(1, 2), Unlocked(3, 1)>>)
    \cup LevelsOf(<<Unlocked(3, 3)>>)

\* The boards of a level at the two call sites of solve_level: after
\* _initialize_state (line 241) and after a move is executed (line 265).
boards_after_move(started) ==
    LET valid == get_all_valid_moves(started)
    IN  {execute_move(started, valid[i]) : i \in DOMAIN valid}

MatchBoards(lv) ==
    {initialize_state(lv)}
    \cup boards_after_move(process_all_matches(initialize_state(lv)).state)

\* The moves of _get_all_valid_moves as a set.
pruned_moves(state) ==
    {get_all_valid_moves(state)[i] : i \in DOMAIN get_all_valid_moves(state)}

\* The boards with their counters reset: two boards with the same cells,
\* locks and progress are one position.
position(state) == [state EXCEPT !.move_count = 0, !.match_count = 0]

\* Lines 264-265 of solve_level: the move is executed and the matches are
\* processed.
play(state, move) == position(process_all_matches(execute_move(state, move)).state)

\* The levels whose boards are played from: six items in two 3-slot
\* containers or in a 3-slot container of two rows, beside two empty 1-slot
\* containers.
FullLevels(layout, n) ==
    {lv \in LevelsOf(layout) :
        /\ \A i \in 1..n : Len(lv.containers[i].initial_items) =
              layout[i].slot_count * layout[i].max_rows_per_slot
        /\ \A i \in (n + 1)..Len(layout) : lv.containers[i].initial_items = <<>>}

PlayLevels ==
    FullLevels(<<Unlocked(3, 1), Unlocked(3, 1), Unlocked(1, 1), Unlocked(1, 1)>>, 2)
    \cup FullLevels(<<Unlocked(3, 2), Unlocked(1, 1), Unlocked(1, 1)>>, 1)

(***************************************************************************)
(* Arguments of reverse_place_items: a container list, the containers the  *)
(* position test of lines 88-97 finds off-screen, and the placement order   *)
(* of generate_level (line 515): duplicates, then the selected types.      *)
(***************************************************************************)
MaxDuplicates == 1

BuildInput(cs, off, triples) ==
    [containers |-> cs, off_screen_ids |-> off, all_triples |-> triples]

PlacementOrders ==
    {duplicates \o <<1, 2>> :
        duplicates \in UNION {[1..n -> {1, 2}] : n \in 0..MaxDuplicates}}

BuildLayouts ==
    {<<Unlocked(3, 2), Unlocked(3, 2)>>,
     <<Unlocked(3, 2), Unlocked(3, 1), Unlocked(1, 2)>>,
     <<Unlocked(3, 1), Unlocked(3, 1), Locked(3, 1, 1)>>}

BuildInputs ==
    {BuildInput(cs, {}, triples) : cs \in BuildLayouts, triples \in PlacementOrders}
    \cup {BuildInput(<<Unlocked(3, 2), Unlocked(3, 2), Unlocked(3, 1)>>, {2}, triples) :
            triples \in PlacementOrders}

\* The levels of generate_levels: two 3-slot containers of one row, alone
\* or beside a 1-slot container, and two item types.
GenerateInputs ==
    {BuildInput(cs, {}, <<1, 2>>) :
        cs \in {<<Unlocked(3, 1), Unlocked(3, 1)>>,
                <<Unlocked(3, 1), Unlocked(3, 1), Unlocked(1, 1)>>}}

\* The containers given to _check_and_advance_rows: every filling of a
\* container of 1 or 3 slots and 1 to 3 rows.
ContainersOf(slot_count, max_rows) ==
    {[ContainerState(0, slot_count, max_rows, FALSE, 0) EXCEPT !.slots = grid] :
        grid \in [Range0(slot_count) -> [Range0(max_rows) -> Cell]]}

AdvanceContainers ==
    ContainersOf(1, 1) \cup ContainersOf(1, 3) \cup ContainersOf(3, 1)
    \cup ContainersOf(3, 2) \cup ContainersOf(3, 3)

(***************************************************************************)
(* The state machines.                                                     *)
(*   level .. move_limit   the arguments of solve_level                    *)
(*   pc .. result          the locals of the call (see Run)                *)
(*   twin_seed, twin       a second call on the same arguments but seed    *)
(*   entry, ci, found, total   _process_all_matches: the board at the      *)
(*                         call, the loop index and the two locals         *)
(*   before, after         _check_and_advance_rows: the container at the   *)
(*                         call and at the return                          *)
(*   depth .. front_full   the boards reached from a level's board by the  *)
(*                         moves of _get_all_valid_moves and by all legal  *)
(*                         moves, within depth moves                       *)
(***************************************************************************)
VARIABLES level, strategy, noise_seed, move_limit,
          pc, effective_limit, noise_rng, state, last_move, recent_moves,
          new_matches, result,
          twin_seed, twin, entry, ci, found, total, before, after,
          depth, seen_pruned, front_pruned, seen_full, front_full,
          containers, off_screen_ids, all_triples, grid, total_triples,
          total_moves, empty_front_count, trace, fix_iterations,
          attempt, ensemble_result, errors,
          runs_done, best_result, run_log,
          pending, launched, draws,
          heap, refs, candidate,
          level_number, seeds, files,
          scored, best_move

vars == <<level, strategy, noise_seed, move_limit,
          pc, effective_limit, noise_rng, state, last_move, recent_moves,
          new_matches, result,
          twin_seed, twin, entry, ci, found, total, before, after,
          depth, seen_pruned, front_pruned, seen_full, front_full,
          containers, off_screen_ids, all_triples, grid, total_triples,
          total_moves, empty_front_count, trace, fix_iterations,
          attempt, ensemble_result, errors,
          runs_done, best_result, run_log,
          pending, launched, draws,
          heap, refs, candidate,
          level_number, seeds, files,
          scored, best_move>>

inputs == <<level, strategy, noise_seed, move_limit>>

locals == <<effective_limit, noise_rng, last_move, recent_moves, new_matches, result>>

twin_vars == <<twin_seed, twin>>

match_vars == <<entry, ci, found, total>>

advance_vars == <<before, after>>

reach_vars == <<depth, seen_pruned, front_pruned, seen_full, front_full>>

build_vars == <<containers, off_screen_ids, all_triples, grid, total_triples,
                total_moves, empty_front_count, trace, fix_iterations>>

\* The locals of solve_level_best: the runs made and best (<<>> for None);
\* run_log records the limit and the outcome of the runs made.
ensemble_vars == <<runs_done, best_result, run_log>>

\* The runs of the ensemble executed concurrently: the runs not started,
\* the limit each run in flight was started with, and for each run the
\* result its strategy and seed give under the initial limit.
parallel_vars == <<pending, launched, draws>>

\* The objects of one call of _score_move_unified: the object store, the
\* names state, test_state, fu_state and deadlock_test, and the move scored.
clone_vars == <<heap, refs, candidate>>

\* The loop over the levels of generate_levels: the level number, the seeds
\* of the attempts made for it, and the files written.
batch_vars == <<level_number, seeds, files>>

\* _find_best_move step by step: the list scored and the move returned.
choose_vars == <<scored, best_move>>

generate_vars ==
    <<attempt, ensemble_result, errors, ensemble_vars, parallel_vars, clone_vars,
      batch_vars, choose_vars>>

\* The variables of the other state machines.
other_vars == <<reach_vars, build_vars, generate_vars>>

EmptyState == [containers |-> <<>>, move_count |-> 0, match_count |-> 0]

NoContainer == ContainerState(0, 1, 1, FALSE, 0)

\* The locals of the call as a run record.
Run ==
    [pc |-> pc, effective_limit |-> effective_limit, noise_rng |-> noise_rng,
     state |-> state, last_move |-> last_move, recent_moves |-> recent_moves,
     new_matches |-> new_matches, result |-> result]

SetRun(run) ==
    /\ pc' = run.pc
    /\ effective_limit' = run.effective_limit
    /\ noise_rng' = run.noise_rng
    /\ state' = run.state
    /\ last_move' = run.last_move
    /\ recent_moves' = run.recent_moves
    /\ new_matches' = run.new_matches
    /\ result' = run.result

\* The run before the call.
IdleRun ==
    [pc |-> "start", effective_limit |-> 0, noise_rng |-> NoRng,
     state |-> EmptyState, last_move |-> NoMove, recent_moves |-> <<>>,
     new_matches |-> 0, result |-> SolveResult]

\* No call yet: the arguments are unset.
NoLevel == [containers |-> <<>>]

InitInputs ==
    /\ level = NoLevel
    /\ strategy = NoStrategy
    /\ noise_seed = 0
    /\ move_limit = 0

\* The arguments of a call.
SetInputs(input) ==
    /\ level' = input.level
    /\ strategy' = input.strategy
    /\ noise_seed' = input.noise_seed
    /\ move_limit' = input.move_limit

InitLocals ==
    /\ effective_limit = 0
    /\ noise_rng = NoRng
    /\ last_move = NoMove
    /\ recent_moves = <<>>
    /\ new_matches = 0
    /\ result = SolveResult

InitTwin ==
    /\ twin_seed = 0
    /\ twin = IdleRun

InitMatch ==
    /\ entry = EmptyState
    /\ ci = 0
    /\ found = FALSE
    /\ total = 0

InitAdvance ==
    /\ before = NoContainer
    /\ after = NoContainer

InitReach ==
    /\ depth = 0
    /\ seen_pruned = {}
    /\ front_pruned = {}
    /\ seen_full = {}
    /\ front_full = {}

InitBuild ==
    /\ containers = <<>>
    /\ off_screen_ids = {}
    /\ all_triples = <<>>
    /\ grid = <<>>
    /\ total_triples = 0
    /\ total_moves = 0
    /\ empty_front_count = 0
    /\ trace = <<>>
    /\ fix_iterations = 0

\* No result of solve_level_best yet.
NoBest == [result |-> SolveResult, fallback |-> FALSE]

InitEnsemble ==
    /\ runs_done = 0
    /\ best_result = <<>>
    /\ run_log = {}

InitParallel ==
    /\ pending = {}
    /\ launched = <<>>
    /\ draws = <<>>

\* The address of no object, and the names before the call.
NoRef == <<"None", 0, 0, 0>>
NoRefs == [state |-> NoRef, test_state |-> NoRef, fu_state |-> NoRef,
           deadlock_test |-> NoRef]

InitClone ==
    /\ heap = <<>>
    /\ refs = NoRefs
    /\ candidate = NoMove

InitChoose ==
    /\ scored = <<>>
    /\ best_move = NoMove

InitBatch ==
    /\ level_number = 1
    /\ seeds = <<>>
    /\ files = <<>>

InitGenerate ==
    /\ attempt = 0
    /\ ensemble_result = NoBest
    /\ errors = <<>>
    /\ InitEnsemble
    /\ InitParallel
    /\ InitClone
    /\ InitBatch
    /\ InitChoose

InitOther == InitReach /\ InitBuild /\ InitGenerate

(***************************************************************************)
(* One call of solve_level.                                                *)
(***************************************************************************)
Init ==
    /\ pc = "start"
    /\ state = EmptyState
    /\ InitInputs /\ InitLocals /\ InitTwin /\ InitMatch /\ InitAdvance /\ InitOther

\* The call, up to the first while test.
SolveBegin ==
    /\ pc = "start"
    /\ \E input \in SolveInputs :
          /\ SetInputs(input)
          /\ SetRun(solve_begin(input.level, input.strategy, input.noise_seed,
                                input.move_limit))
    /\ UNCHANGED <<twin_vars, match_vars, advance_vars, other_vars>>

\* One iteration of the while loop: the best move is executed and matches
\* are processed, or there is no move and the call returns.
SolveStep ==
    /\ pc = "loop"
    /\ loop_continues(Run)
    /\ \E best \in run_best_moves(Run, strategy) :
          SetRun(IF best = NoMove THEN solve_no_moves(Run)
                 ELSE solve_iteration(Run, best))
    /\ UNCHANGED <<inputs, twin_vars, match_vars, advance_vars, other_vars>>

\* The while test fails: the call returns success or 'Max moves exceeded'.
SolveReturn ==
    /\ pc = "loop"
    /\ ~loop_continues(Run)
    /\ SetRun(solve_return(Run))
    /\ UNCHANGED <<inputs, twin_vars, match_vars, advance_vars, other_vars>>

Next == SolveBegin \/ SolveStep \/ SolveReturn

Spec == Init /\ [][Next]_vars

\* SolveBegin or SolveStep can be taken: their guards.  _find_best_move
\* returns a move or None, so a step past the guard always exists.
SolveEnabled == pc = "start" \/ (pc = "loop" /\ loop_continues(Run))

\* The call runs on: a sequential program takes its next step.  The fairness
\* of SolveBegin and SolveStep is weak fairness written out: ENABLED is the
\* guard SolveEnabled, and a step where it holds is a step of one of the
\* two, the only actions of Next enabled there.
FairSpec ==
    /\ Spec
    /\ WF_vars(SolveReturn)
    /\ ([]<>(~SolveEnabled) \/ []<><<SolveEnabled>>_vars)

(***************************************************************************)
(* Two calls of solve_level on the same level, strategy and limit with     *)
(* different seeds, side by side.                                          *)
(***************************************************************************)
InitDet == Init

\* The two calls, up to their first while test.
TwinBegin ==
    /\ pc = "start"
    /\ \E input \in TwinInputs, seed \in 0..MaxSeed :
          /\ SetInputs(input)
          /\ SetRun(solve_begin(input.level, input.strategy, input.noise_seed,
                                input.move_limit))
          /\ twin_seed' = seed
          /\ twin' = solve_begin(input.level, input.strategy, seed, input.move_limit)
    /\ UNCHANGED <<match_vars, advance_vars, other_vars>>

TwinStep ==
    /\ pc = "loop" \/ twin.pc = "loop"
    /\ \E r1 \in run_next(Run, strategy), r2 \in run_next(twin, strategy) :
          SetRun(r1) /\ twin' = r2
    /\ UNCHANGED <<inputs, twin_seed, match_vars, advance_vars, other_vars>>

NextDet == TwinBegin \/ TwinStep

SpecDet == InitDet /\ [][NextDet]_vars

(***************************************************************************)
(* One call of _process_all_matches, one container visit per step.         *)
(*   pc = "start"      before the call                                     *)
(*   pc = "for"        at the head of the for loop with index ci           *)
(*   pc = "returned"   after the return; total is the returned value       *)
(***************************************************************************)
InitMatching == Init

\* Lines 852-854: the call on a board of a level, up to the first pass.
MatchCall ==
    /\ pc = "start"
    /\ \E lv \in MatchLevels :
          /\ SetInputs(Input(lv, NoStrategy, 0, 0))
          /\ \E board \in MatchBoards(lv) : entry' = board /\ state' = board
    /\ pc' = "for"
    /\ ci' = 0
    /\ found' = FALSE
    /\ total' = 0
    /\ UNCHANGED <<locals, twin_vars, advance_vars, other_vars>>

\* Lines 856-858: the container is skipped (fewer than 3 slots) or
\* _process_container_match returns False.
MatchNone ==
    /\ pc = "for"
    /\ ci < NumContainers(state)
    /\ ~visit_container(state, ci).matched
    /\ ci' = ci + 1
    /\ UNCHANGED <<inputs, pc, state, locals, twin_vars, entry, found, total, advance_vars, other_vars>>

\* Lines 858-860: _process_container_match clears the container.
MatchClear ==
    /\ pc = "for"
    /\ ci < NumContainers(state)
    /\ visit_container(state, ci).matched
    /\ state' = visit_container(state, ci).state
    /\ found' = TRUE
    /\ total' = total + 1
    /\ ci' = ci + 1
    /\ UNCHANGED <<inputs, pc, locals, twin_vars, entry, advance_vars, other_vars>>

\* Lines 854-855: the for loop ended with a match; another pass begins.
MatchRepeat ==
    /\ pc = "for"
    /\ ci >= NumContainers(state)
    /\ found
    /\ found' = FALSE
    /\ ci' = 0
    /\ UNCHANGED <<inputs, pc, state, locals, twin_vars, entry, total, advance_vars, other_vars>>

\* Lines 861-863: the for loop ended without a match; total is returned.
MatchReturn ==
    /\ pc = "for"
    /\ ci >= NumContainers(state)
    /\ ~found
    /\ pc' = "returned"
    /\ UNCHANGED <<inputs, state, locals, twin_vars, match_vars, advance_vars, other_vars>>

NextMatch == MatchCall \/ MatchNone \/ MatchClear \/ MatchRepeat \/ MatchReturn

SpecMatch == InitMatching /\ [][NextMatch]_vars

\* The call runs on: a sequential program takes its next step.  The
\* fairness of MatchCall is weak fairness written out: ENABLED is its guard,
\* and a step where it holds is a step of MatchCall.
FairSpecMatch ==
    /\ SpecMatch
    /\ WF_vars(MatchNone \/ MatchClear \/ MatchRepeat \/ MatchReturn)
    /\ ([]<>(pc # "start") \/ []<><<pc = "start">>_vars)

(***************************************************************************)
(* One call of _check_and_advance_rows.                                    *)
(***************************************************************************)
InitAdvancing ==
    /\ before \in AdvanceContainers
    /\ after = before
    /\ pc = "call"
    /\ state = EmptyState
    /\ InitInputs /\ InitLocals /\ InitTwin /\ InitMatch /\ InitOther

Advance ==
    /\ pc = "call"
    /\ after' = check_and_advance_rows(before)
    /\ pc' = "returned"
    /\ UNCHANGED <<inputs, state, locals, twin_vars, match_vars, before, other_vars>>

NextAdvance == Advance

SpecAdvance == InitAdvancing /\ [][NextAdvance]_vars

(***************************************************************************)
(* The boards reached from the board of a level, move by move: by the      *)
(* moves of _get_all_valid_moves (seen_pruned, the last layer front_pruned)*)
(* and by every legal move (seen_full, front_full).                        *)
(***************************************************************************)
InitReaching == Init

\* Any front item of an unlocked container to any empty front slot of a
\* different unlocked container.
legal_move(board, f, fs, k, ks) ==
    /\ f \in DOMAIN board.containers
    /\ k \in DOMAIN board.containers
    /\ f # k
    /\ ~board.containers[f].is_locked
    /\ ~board.containers[k].is_locked
    /\ fs < board.containers[f].slot_count
    /\ ks < board.containers[k].slot_count
    /\ board.containers[f].slots[fs][0] # None
    /\ board.containers[k].slots[ks][0] = None

\* The board after the i-th move of _get_all_valid_moves; the board itself
\* when the list has no i-th move.
play_pruned(board, i) ==
    IF i <= Len(get_all_valid_moves(board))
    THEN play(board, get_all_valid_moves(board)[i])
    ELSE board

\* The board after the move of the front item at <<f, fs>> to <<k, ks>>; the
\* board itself when that is no legal move.
play_legal(board, f, fs, k, ks) ==
    IF legal_move(board, f, fs, k, ks)
    THEN play(board, Move(f, fs, k, ks, board.containers[f].slots[fs][0]))
    ELSE board

\* The boards of a set and the boards one move after them: a board holds at
\* most 6 front items and a move has at most 3 destination containers.
pruned_successors(boards) ==
    {play_pruned(b, i) : b \in boards, i \in 1..(6 * 3)}

full_successors(boards) ==
    {play_legal(b, f, fs, k, ks) :
        b \in boards, f \in Range0(4), fs \in Range0(3), k \in Range0(4), ks \in Range0(3)}

\* The board of a level after _initialize_state and the first
\* _process_all_matches (lines 240-241).
ReachBegin ==
    /\ pc = "start"
    /\ \E lv \in PlayLevels :
          LET board == position(process_all_matches(initialize_state(lv)).state)
          IN  /\ SetInputs(Input(lv, NoStrategy, 0, 0))
              /\ state' = board
              /\ seen_pruned' = {board}
              /\ front_pruned' = {board}
              /\ seen_full' = {board}
              /\ front_full' = {board}
    /\ pc' = "reach"
    /\ depth' = 0
    /\ UNCHANGED <<locals, twin_vars, match_vars, advance_vars, build_vars, generate_vars>>

\* One more move from every board of the last layers.
ReachDeeper ==
    /\ pc = "reach"
    /\ front_pruned # {} \/ front_full # {}
    /\ depth' = depth + 1
    /\ front_pruned' = pruned_successors(front_pruned) \ seen_pruned
    /\ seen_pruned' = seen_pruned \cup front_pruned'
    /\ front_full' = full_successors(front_full) \ seen_full
    /\ seen_full' = seen_full \cup front_full'
    /\ UNCHANGED <<inputs, pc, state, locals, twin_vars, match_vars, advance_vars, build_vars, generate_vars>>

NextReach == ReachBegin \/ ReachDeeper

SpecReach == InitReaching /\ [][NextReach]_vars

(***************************************************************************)
(* reverse_place_items(containers, item_ids, max_rows, rng): the board is  *)
(* built triple by triple.  containers is a sequence of shapes, a          *)
(* container's id is its index; grid maps the cells <<cid, slot, row>> to  *)
(* an item type or None; off_screen_ids is the outcome of the position     *)
(* test of lines 88-97; every draw from rng is a choice.                   *)
(***************************************************************************)
MIN_EMPTY_FRONT == 3
MAX_FIX_ITERATIONS == 50

ContainerIds == 1..Len(containers)

IdList == [i \in 1..Len(containers) |-> i]

unlocked == SelectSeq(IdList, LAMBDA i : ~containers[i].is_locked)

locked == SelectSeq(IdList, LAMBDA i : containers[i].is_locked)

c_rows(cid) == containers[cid].max_rows_per_slot

SlotsOf(cid) == Range0(containers[cid].slot_count)

total_planned == Len(all_triples)

lock_cutoffs(cid) == total_planned - containers[cid].unlock_matches_required

is_active(cid, triples_placed) ==
    IF ~containers[cid].is_locked THEN TRUE
    ELSE triples_placed < lock_cutoffs(cid)

get_active_containers(triples_placed) ==
    {cid \in ContainerIds : is_active(cid, triples_placed)}

front_empty(g, cid) == \A s \in SlotsOf(cid) : g[<<cid, s, 0>>] = None

\* Faulty variant of can_push: the last row is not looked at.
can_push_any(g, cid) == c_rows(cid) > 1

can_push(g, cid) ==
    IF c_rows(cid) <= 1 THEN FALSE
    ELSE \A s \in SlotsOf(cid) : g[<<cid, s, c_rows(cid) - 1>>] = None

push_deeper(g, cid) ==
    [x \in DOMAIN g |->
        IF x[1] # cid THEN g[x]
        ELSE IF x[3] = 0 THEN None
        ELSE g[<<cid, x[2], x[3] - 1>>]]

\* Faulty variant of get_scatter_dests: off-screen containers are kept.
get_scatter_dests_anywhere(g, exclude_cid, triples_placed) ==
    {<<cid, s>> \in ContainerIds \X Range0(3) :
        /\ cid \in get_active_containers(triples_placed)
        /\ cid # exclude_cid
        /\ s \in SlotsOf(cid)
        /\ g[<<cid, s, 0>>] = None}

get_scatter_dests(g, exclude_cid, triples_placed) ==
    {<<cid, s>> \in ContainerIds \X Range0(3) :
        /\ cid \in get_active_containers(triples_placed)
        /\ cid # exclude_cid
        /\ cid \notin off_screen_ids
        /\ s \in SlotsOf(cid)
        /\ g[<<cid, s, 0>>] = None}

\* Lines 147-151 and 263-267: the empty front slots of unlocked containers.
count_empty_front(g) ==
    Cardinality({<<cid, s>> \in ContainerIds \X Range0(3) :
        /\ ~containers[cid].is_locked
        /\ s \in SlotsOf(cid)
        /\ g[<<cid, s, 0>>] = None})

\* Faulty variant of eligible: containers of fewer than 3 slots can host.
eligible_any_size(g, triples_placed) ==
    {cid \in get_active_containers(triples_placed) :
        front_empty(g, cid) \/ can_push(g, cid)}

\* Lines 158-167.
eligible(g, triples_placed) ==
    {cid \in get_active_containers(triples_placed) :
        /\ containers[cid].slot_count >= 3
        /\ front_empty(g, cid) \/ can_push(g, cid)}

need_push(g, triples_placed) ==
    {cid \in eligible(g, triples_placed) : ~front_empty(g, cid)}

\* Lines 175-179: the containers rng can pick as target.
targets(g, efc, triples_placed) ==
    IF need_push(g, triples_placed) # {} /\ efc <= MIN_EMPTY_FRONT + 3
    THEN need_push(g, triples_placed)
    ELSE eligible(g, triples_placed)

host_front_items(g, cid) ==
    Cardinality({s \in SlotsOf(cid) : g[<<cid, s, 0>>] # None})

\* Lines 185-198: push when the front holds an item, then the triple in the
\* front row.
place_triple(g, cid, item_id) ==
    LET pushed == IF host_front_items(g, cid) > 0 THEN push_deeper(g, cid) ELSE g
    IN  [x \in DOMAIN g |->
            IF x[1] = cid /\ x[3] = 0 /\ x[2] < 3 THEN item_id ELSE pushed[x]]

count_after_place(g, efc, cid) ==
    IF containers[cid].is_locked THEN efc
    ELSE efc + host_front_items(g, cid) - 3

\* The n-element subsets of a set.
Choices(S, n) == {T \in SUBSET S : Cardinality(T) = n}

\* Lines 226-229: the items of scatter_slots go to the chosen dests.
scatter(g, cid, item_id, scatter_slots, chosen) ==
    [x \in DOMAIN g |->
        IF x[3] = 0 /\ <<x[1], x[2]>> \in chosen THEN item_id
        ELSE IF x[1] = cid /\ x[3] = 0 /\ x[2] \in scatter_slots THEN None
        ELSE g[x]]

\* Lines 247-252.
var_dests(g, src_cid, triples_placed) ==
    {<<cid, s>> \in ContainerIds \X Range0(3) :
        /\ cid \in get_active_containers(triples_placed)
        /\ cid # src_cid
        /\ cid \notin off_screen_ids
        /\ s \in SlotsOf(cid)
        /\ g[<<cid, s, 0>>] = None}

\* Lines 237-253: the sources the shuffled scan can stop at.
variance_sources(g, triples_placed) ==
    {<<cid, s>> \in ContainerIds \X Range0(3) :
        /\ cid \in get_active_containers(triples_placed)
        /\ cid \notin off_screen_ids
        /\ s \in SlotsOf(cid)
        /\ g[<<cid, s, 0>>] # None
        /\ var_dests(g, cid, triples_placed) # {}}

variance_move(g, src, dst) ==
    [g EXCEPT ![<<dst[1], dst[2], 0>>] = g[<<src[1], src[2], 0>>],
              ![<<src[1], src[2], 0>>] = None]

\* What one triple used: its host, the containers scattered to, and the
\* containers of its variance move.
Step(host, scattered_to, variance) ==
    [host |-> host, scattered_to |-> scattered_to, variance |-> variance]

\* Lines 268-286: front items go to the first empty back row of their slot
\* until MIN_EMPTY_FRONT front slots of unlocked containers are empty.
first_empty_back_row(g, cid, s) ==
    LET empty == {r \in 1..(c_rows(cid) - 1) : g[<<cid, s, r>>] = None}
    IN  IF empty = {} THEN 0 ELSE CHOOSE r \in empty : \A q \in empty : r <= q

RECURSIVE make_room(_, _, _, _)
make_room(g, efc, i, s) ==
    IF efc >= MIN_EMPTY_FRONT \/ i > Len(unlocked) THEN g
    ELSE LET cid == unlocked[i]
         IN  IF c_rows(cid) <= 1 \/ s >= containers[cid].slot_count
             THEN make_room(g, efc, i + 1, 0)
             ELSE IF g[<<cid, s, 0>>] = None \/ first_empty_back_row(g, cid, s) = 0
             THEN make_room(g, efc, i, s + 1)
             ELSE make_room(
                     [g EXCEPT ![<<cid, s, first_empty_back_row(g, cid, s)>>] = g[<<cid, s, 0>>],
                               ![<<cid, s, 0>>] = None],
                     efc + 1, i, s + 1)

\* Line 290: the pool of the repair passes.
all_playable == unlocked \o locked

\* _fix_starting_triples, lines 317-327: the rows <<i, r>> of 3-slot
\* containers pool[i] whose cells all hold the same item.
triple_rows(g, pool) ==
    {<<i, r>> \in (1..Len(pool)) \X Range0(3) :
        /\ containers[pool[i]].slot_count >= 3
        /\ r < c_rows(pool[i])
        /\ \A s \in SlotsOf(pool[i]) :
              /\ g[<<pool[i], s, r>>] # None
              /\ g[<<pool[i], s, r>>] = g[<<pool[i], 0, r>>]}

\* The first of them in the order of the scan.
first_triple_row(g, pool) ==
    CHOOSE x \in triple_rows(g, pool) :
        \A y \in triple_rows(g, pool) : x[1] < y[1] \/ (x[1] = y[1] /\ x[2] <= y[2])

\* Line 340.
swap_row(other, r) == IF r < c_rows(other) THEN r ELSE 0

\* Lines 341-343: the slots of other holding an item that differs from
\* target_item.
swap_slots(g, other, r, target_item) ==
    {os_idx \in SlotsOf(other) :
        /\ g[<<other, os_idx, swap_row(other, r)>>] # None
        /\ g[<<other, os_idx, swap_row(other, r)>>] # target_item}

\* Lines 333-348: the containers the shuffled scan can stop at.
swap_partners(g, cid, r) ==
    {other \in ContainerIds :
        other # cid /\ swap_slots(g, other, r, g[<<cid, 0, r>>]) # {}}

\* Line 344, with the first suitable slot of other.
swap_out(g, cid, r, other) ==
    LET slots == swap_slots(g, other, r, g[<<cid, 0, r>>])
        os_idx == CHOOSE s \in slots : \A q \in slots : s <= q
        cell == <<other, os_idx, swap_row(other, r)>>
    IN  [g EXCEPT ![<<cid, 0, r>>] = g[cell], ![cell] = g[<<cid, 0, r>>]]

\* The items of a container.
item_count(g, cid) ==
    Cardinality({<<s, r>> \in SlotsOf(cid) \X Range0(c_rows(cid)) :
        g[<<cid, s, r>>] # None})

\* max(pool, key = item count): the first of the fullest.
fullest(g, pool) ==
    pool[CHOOSE i \in 1..Len(pool) :
            /\ \A j \in 1..Len(pool) : item_count(g, pool[j]) <= item_count(g, pool[i])
            /\ \A j \in 1..(i - 1) : item_count(g, pool[j]) < item_count(g, pool[i])]

front_slots(g, cid) == {s \in SlotsOf(cid) : g[<<cid, s, 0>>] # None}

first_front_slot(g, cid) ==
    CHOOSE s \in front_slots(g, cid) : \A q \in front_slots(g, cid) : s <= q

\* _ensure_no_empty_containers, lines 359-380, from pool[i] on.
RECURSIVE ensure_no_empty_containers(_, _, _)
ensure_no_empty_containers(g, pool, i) ==
    IF i > Len(pool) THEN g
    ELSE LET cid == pool[i]
             donor == fullest(g, pool)
         IN  IF item_count(g, cid) > 0 \/ donor = cid \/ front_slots(g, donor) = {}
             THEN ensure_no_empty_containers(g, pool, i + 1)
             ELSE ensure_no_empty_containers(
                     [g EXCEPT ![<<cid, 0, 0>>] = g[<<donor, first_front_slot(g, donor), 0>>],
                               ![<<donor, first_front_slot(g, donor), 0>>] = None],
                     pool, i + 1)

\* sorted(unlocked, key = item count, reverse = True): stable.
RECURSIVE donors_sorted(_, _)
donors_sorted(g, seq) ==
    IF seq = <<>> THEN <<>>
    ELSE LET i == CHOOSE k \in 1..Len(seq) :
                     /\ \A j \in 1..Len(seq) : item_count(g, seq[j]) <= item_count(g, seq[k])
                     /\ \A j \in 1..(k - 1) : item_count(g, seq[j]) < item_count(g, seq[k])
         IN  <<seq[i]>> \o donors_sorted(g, SubSeq(seq, 1, i - 1) \o SubSeq(seq, i + 1, Len(seq)))

first_empty_row(g, cid) ==
    LET empty == {r \in Range0(c_rows(cid)) : g[<<cid, 0, r>>] = None}
    IN  CHOOSE r \in empty : \A q \in empty : r <= q

back_items(g, cid) ==
    Cardinality({r \in 1..(c_rows(cid) - 1) : g[<<cid, 0, r>>] # None})

\* Lines 416-431: front items of the donors, from slot s of donors[d] on, go
\* to the first empty row of cid until it holds 2 items.
RECURSIVE steal_items(_, _, _, _, _)
steal_items(g, cid, donors, d, s) ==
    IF d > Len(donors) THEN g
    ELSE IF donors[d] = cid THEN steal_items(g, cid, donors, d + 1, 0)
    ELSE IF s >= containers[donors[d]].slot_count
    THEN IF item_count(g, cid) >= 2 THEN g ELSE steal_items(g, cid, donors, d + 1, 0)
    ELSE IF g[<<donors[d], s, 0>>] # None /\ item_count(g, cid) < 2
    THEN steal_items(
            [g EXCEPT ![<<cid, 0, first_empty_row(g, cid)>>] = g[<<donors[d], s, 0>>],
                      ![<<donors[d], s, 0>>] = None],
            cid, donors, d, s + 1)
    ELSE steal_items(g, cid, donors, d, s + 1)

\* Lines 433-439.
front_to_back(g, cid) ==
    IF /\ back_items(g, cid) = 0 /\ item_count(g, cid) >= 2
       /\ g[<<cid, 0, 0>>] # None /\ g[<<cid, 0, 1>>] = None
    THEN [g EXCEPT ![<<cid, 0, 1>>] = g[<<cid, 0, 0>>], ![<<cid, 0, 0>>] = None]
    ELSE g

\* _ensure_singleslot_depth, lines 392-439, from container cid on.
RECURSIVE ensure_singleslot_depth(_, _)
ensure_singleslot_depth(g, cid) ==
    IF cid > Len(containers) THEN g
    ELSE IF containers[cid].slot_count # 1 \/ c_rows(cid) < 2
    THEN ensure_singleslot_depth(g, cid + 1)
    ELSE IF item_count(g, cid) >= 2 /\ back_items(g, cid) >= 1
    THEN ensure_singleslot_depth(g, cid + 1)
    ELSE IF item_count(g, cid) < 2
    THEN ensure_singleslot_depth(
            front_to_back(steal_items(g, cid, donors_sorted(g, unlocked), 1, 0), cid),
            cid + 1)
    ELSE ensure_singleslot_depth(front_to_back(g, cid), cid + 1)

\* The cells of the call are empty (lines 64-69).
empty_grid(cs) == [x \in LayoutCells(cs) |-> None]

\* Lines 41-152: a call with its arguments.  The container list is never
\* empty, so the return of lines 60-61 is not taken.
BuildBegin ==
    /\ pc = "start"
    /\ \E input \in BuildInputs :
          /\ containers' = input.containers
          /\ off_screen_ids' = input.off_screen_ids
          /\ all_triples' = input.all_triples
          /\ grid' = empty_grid(input.containers)
    /\ total_triples' = 0
    /\ total_moves' = 0
    /\ empty_front_count' = count_empty_front(grid)'
    /\ trace' = <<>>
    /\ fix_iterations' = 0
    /\ pc' = "place"
    /\ UNCHANGED <<inputs, state, locals, twin_vars, match_vars, advance_vars, reach_vars,
                   generate_vars>>

\* Lines 154-258: one iteration of the loop that does not break.
PlaceTriple ==
    /\ pc = "place"
    /\ total_triples < Len(all_triples)
    /\ eligible(grid, total_triples) # {}
    /\ \E target \in targets(grid, empty_front_count, total_triples) :
          LET item_id == all_triples[total_triples + 1]
              placed == place_triple(grid, target, item_id)
              dests == get_scatter_dests(placed, target, total_triples)
          IN  /\ empty_front_count' = count_after_place(grid, empty_front_count, target)
              /\ total_triples' = total_triples + 1
              /\ IF dests = {}
                 THEN /\ grid' = placed
                      /\ total_moves' = total_moves
                      /\ trace' = Append(trace, Step(target, {}, {}))
                 ELSE \E n_scatter \in 1..(IF Cardinality(dests) < 3 THEN Cardinality(dests) ELSE 3) :
                      \E scatter_slots \in Choices(Range0(3), n_scatter) :
                      \E chosen \in Choices(dests, n_scatter) :
                          LET scattered == scatter(placed, target, item_id, scatter_slots, chosen)
                              sources == variance_sources(scattered, total_triples + 1)
                              scattered_to == {d[1] : d \in chosen}
                          IN  IF (total_triples + 1) % 3 = 0 /\ sources # {}
                              THEN \E src \in sources :
                                   \E dst \in var_dests(scattered, src[1], total_triples + 1) :
                                      /\ grid' = variance_move(scattered, src, dst)
                                      /\ total_moves' = total_moves + n_scatter + 1
                                      /\ trace' = Append(trace,
                                            Step(target, scattered_to, {src[1], dst[1]}))
                              ELSE /\ grid' = scattered
                                   /\ total_moves' = total_moves + n_scatter
                                   /\ trace' = Append(trace, Step(target, scattered_to, {}))
    /\ UNCHANGED <<containers, off_screen_ids, all_triples, fix_iterations, pc>>
    /\ UNCHANGED <<inputs, state, locals, twin_vars, match_vars, advance_vars, reach_vars,
                   generate_vars>>

\* The loop ends, by its break (line 170) or with the last triple, and the
\* pass of lines 263-286 makes room.
MakeRoom ==
    /\ pc = "place"
    /\ total_triples = Len(all_triples) \/ eligible(grid, total_triples) = {}
    /\ grid' = make_room(grid, count_empty_front(grid), 1, 0)
    /\ empty_front_count' = count_empty_front(grid')
    /\ pc' = "fix"
    /\ UNCHANGED <<containers, off_screen_ids, all_triples, total_triples, total_moves,
                   trace, fix_iterations>>
    /\ UNCHANGED <<inputs, state, locals, twin_vars, match_vars, advance_vars, reach_vars,
                   generate_vars>>

\* One iteration of the loop of _fix_starting_triples that finds a triple
\* (lines 315-352).  Without a partner the grid stays as it is, and so does
\* every later iteration, until the 50 iterations are used up.
FixStartingTriple ==
    /\ pc = "fix"
    /\ fix_iterations < MAX_FIX_ITERATIONS
    /\ triple_rows(grid, all_playable) # {}
    /\ LET row == first_triple_row(grid, all_playable)
           cid == all_playable[row[1]]
           r == row[2]
       IN  IF swap_partners(grid, cid, r) = {}
           THEN /\ grid' = grid
                /\ fix_iterations' = MAX_FIX_ITERATIONS
           ELSE /\ \E other \in swap_partners(grid, cid, r) :
                      grid' = swap_out(grid, cid, r, other)
                /\ fix_iterations' = fix_iterations + 1
    /\ UNCHANGED <<containers, off_screen_ids, all_triples, total_triples, total_moves,
                   empty_front_count, trace, pc>>
    /\ UNCHANGED <<inputs, state, locals, twin_vars, match_vars, advance_vars, reach_vars,
                   generate_vars>>

\* _fix_starting_triples returns (line 354 or the end of its loop) and
\* _ensure_no_empty_containers runs (line 292).
EnsureNoEmptyContainers ==
    /\ pc = "fix"
    /\ fix_iterations >= MAX_FIX_ITERATIONS \/ triple_rows(grid, all_playable) = {}
    /\ grid' = ensure_no_empty_containers(grid, all_playable, 1)
    /\ pc' = "depth"
    /\ UNCHANGED <<containers, off_screen_ids, all_triples, total_triples, total_moves,
                   empty_front_count, trace, fix_iterations>>
    /\ UNCHANGED <<inputs, state, locals, twin_vars, match_vars, advance_vars, reach_vars,
                   generate_vars>>

\* _ensure_singleslot_depth (line 293) and the return of line 308.
EnsureSingleslotDepth ==
    /\ pc = "depth"
    /\ grid' = ensure_singleslot_depth(grid, 1)
    /\ pc' = "built"
    /\ UNCHANGED <<containers, off_screen_ids, all_triples, total_triples, total_moves,
                   empty_front_count, trace, fix_iterations>>
    /\ UNCHANGED <<inputs, state, locals, twin_vars, match_vars, advance_vars, reach_vars,
                   generate_vars>>

InitBuilding == Init

NextBuild ==
    \/ BuildBegin
    \/ PlaceTriple
    \/ MakeRoom
    \/ FixStartingTriple
    \/ EnsureNoEmptyContainers
    \/ EnsureSingleslotDepth

SpecBuild == InitBuilding /\ [][NextBuild]_vars

(***************************************************************************)
(* solve_level_best (level_solver.py, lines 170-219) and the attempt loop  *)
(* of generate_levels for one level (reverse_generator.py, lines 617-649). *)
(***************************************************************************)
MAX_ATTEMPTS == 20

noise_runs_per_strategy == 3

\* The runs a set of runs of solve_level can be in after at most n
\* iterations of each, and the runs they can end in.
RECURSIVE runs_after(_, _, _)
runs_after(runs, strat, n) ==
    IF \A run \in runs : run.pc = "done" THEN runs
    ELSE IF n = 1 THEN UNION {run_next(run, strat) : run \in runs}
    ELSE runs_after(runs_after(runs, strat, n \div 2), strat, n - (n \div 2))

RECURSIVE finished_runs(_, _)
finished_runs(runs, strat) ==
    IF \A run \in runs : run.pc = "done" THEN runs
    ELSE finished_runs(runs_after(runs, strat, MAX_MOVES), strat)

\* solve_level as a call: the results it can return.
solve_level(level_dict, strat, seed, limit) ==
    {run.result : run \in finished_runs({solve_begin(level_dict, strat, seed, limit)}, strat)}

\* Lines 180-208: the runs of the ensemble in order, each strategy clean and
\* then with noise under the seeds 1..noise_runs_per_strategy.
ensemble_runs(i) ==
    LET strat == ALL_STRATEGIES[((i - 1) \div (noise_runs_per_strategy + 1)) + 1]
        run == (i - 1) % (noise_runs_per_strategy + 1)
    IN  IF run = 0 THEN [strategy |-> strat, noise_seed |-> 0]
        ELSE [strategy |-> noise_strategy(strat, run), noise_seed |-> run]

NumEnsembleRuns == Len(ALL_STRATEGIES) * (noise_runs_per_strategy + 1)

\* Faulty variant of first_move_limit: construction_moves is not read.
first_move_limit_default(level_dict) == MAX_MOVES

\* Lines 174-177.
first_move_limit(level_dict) ==
    IF level_dict.construction_moves <= 0 THEN MAX_MOVES
    ELSE level_dict.construction_moves

\* Faulty variant of better_of: every successful run is kept.
latest_of(best, run_result) ==
    IF run_result.success THEN <<run_result>> ELSE best

\* Faulty variant of better_of: the first successful result is kept.
first_of(best, run_result) ==
    IF run_result.success /\ best = <<>> THEN <<run_result>> ELSE best

\* Lines 183-185 and 202-204; best is <<>> for None.
better_of(best, run_result) ==
    IF run_result.success /\ (best = <<>> \/ run_result.total_moves < best[1].total_moves)
    THEN <<run_result>>
    ELSE best

\* The values of best after the runs i.. of the ensemble.
RECURSIVE ensemble(_, _, _)
ensemble(level_dict, i, best) ==
    IF i > NumEnsembleRuns THEN {best}
    ELSE LET limit == IF best = <<>> THEN first_move_limit(level_dict)
                      ELSE best[1].total_moves
             after_run == {better_of(best, run_result) :
                             run_result \in solve_level(level_dict, ensemble_runs(i).strategy,
                                                        ensemble_runs(i).noise_seed, limit)}
         IN  UNION {ensemble(level_dict, i + 1, b) : b \in after_run}

\* The results solve_level_best can return; fallback tells the result of
\* line 211 from a result of the ensemble.
solve_level_best(level_dict) ==
    UNION {IF best = <<>>
           THEN {[result |-> r, fallback |-> TRUE] :
                    r \in solve_level(level_dict, NoStrategy, 0, 0)}
           ELSE {[result |-> best[1], fallback |-> FALSE]} :
           best \in ensemble(level_dict, 1, <<>>)}

\* The level_data of generate_level (lines 531-537).
level_data ==
    [containers |-> LevelOf(containers, grid).containers,
     construction_moves |-> total_moves]

\* Lines 623-626 and 453-519: an attempt calls generate_level, which calls
\* reverse_place_items with the containers of the level and a placement
\* order drawn anew.
GenerateLevel ==
    /\ pc \in {"start", "retry"}
    /\ \E input \in GenerateInputs :
          /\ pc = "retry" => input.containers = containers
          /\ containers' = input.containers
          /\ off_screen_ids' = input.off_screen_ids
          /\ all_triples' = input.all_triples
          /\ grid' = empty_grid(input.containers)
    /\ total_triples' = 0
    /\ total_moves' = 0
    /\ empty_front_count' = count_empty_front(grid)'
    /\ trace' = <<>>
    /\ fix_iterations' = 0
    /\ pc' = "place"
    /\ UNCHANGED generate_vars
    /\ UNCHANGED <<inputs, state, locals, twin_vars, match_vars, advance_vars, reach_vars>>

\* Lines 628-649: the ensemble verifies the level; the level is emitted
\* when it is solved, or after MAX_ATTEMPTS attempts with an error.
SolveBest ==
    /\ pc = "built"
    /\ \E outcome \in solve_level_best(level_data) :
          IF outcome.result.success
          THEN /\ ensemble_result' = outcome
               /\ pc' = "emitted"
               /\ UNCHANGED <<attempt, errors>>
          ELSE IF attempt + 1 < MAX_ATTEMPTS
          THEN /\ attempt' = attempt + 1
               /\ pc' = "retry"
               /\ UNCHANGED <<ensemble_result, errors>>
          ELSE /\ attempt' = attempt + 1
               /\ ensemble_result' = outcome
               /\ errors' = Append(errors, "Solver failed")
               /\ pc' = "emitted"
    /\ UNCHANGED <<build_vars, ensemble_vars, parallel_vars, clone_vars, batch_vars, choose_vars>>
    /\ UNCHANGED <<inputs, state, locals, twin_vars, match_vars, advance_vars, reach_vars>>

InitGenerating == Init

NextGenerate ==
    \/ GenerateLevel
    \/ PlaceTriple
    \/ MakeRoom
    \/ FixStartingTriple
    \/ EnsureNoEmptyContainers
    \/ EnsureSingleslotDepth
    \/ SolveBest

SpecGenerate == InitGenerating /\ [][NextGenerate]_vars

(***************************************************************************)
(* generate_levels over its levels (reverse_generator.py, lines 619-653):  *)
(* the attempt loop of every level and the file written for it.            *)
(*   pc = "start"       at line 620 for level_number                       *)
(*   pc = "retry"       at line 623 after a failed attempt                 *)
(*   pc = "place" ..    in reverse_place_items (see SpecBuild)             *)
(*   pc = "built"       at line 628, level_data is built                   *)
(*   pc = "generated"   after the loop over the levels                     *)
(***************************************************************************)
\* The count argument of generate_levels.
BatchCount == 2

\* The rng seed of generate_level (get_level_spec, line 512, and line 457).
level_seed(level_no, seed_offset) == level_no * 42 + 7 + seed_offset

\* Faulty variant of seed_offset_of: every attempt gets the same offset.
seed_offset_same(attempt_no) == 0

\* Line 626: the seed_offset argument of an attempt.
seed_offset_of(attempt_no) == attempt_no * 1000

\* The levels generated (get_level_spec): two 3-slot containers of one row,
\* with two item types in the first level and one in the levels after it.
BatchInputs(level_no) ==
    {BuildInput(<<Unlocked(3, 1), Unlocked(3, 1)>>, {},
                IF level_no = 1 THEN <<1, 2>> ELSE <<1>>)}

\* The file written at lines 649-653.
written(data, solved) == [level_data |-> data, solved |-> solved]

InitBatching == Init

\* Lines 623-626 and 453-519: an attempt calls generate_level with its seed
\* offset.
BatchGenerateLevel ==
    /\ pc \in {"start", "retry"}
    /\ \E input \in BatchInputs(level_number) :
          /\ containers' = input.containers
          /\ off_screen_ids' = input.off_screen_ids
          /\ all_triples' = input.all_triples
          /\ grid' = empty_grid(input.containers)
    /\ seeds' = Append(seeds, level_seed(level_number, seed_offset_of(attempt)))
    /\ total_triples' = 0
    /\ total_moves' = 0
    /\ empty_front_count' = count_empty_front(grid)'
    /\ trace' = <<>>
    /\ fix_iterations' = 0
    /\ pc' = "place"
    /\ UNCHANGED <<attempt, ensemble_result, errors, level_number, files>>
    /\ UNCHANGED <<ensemble_vars, parallel_vars, clone_vars, choose_vars>>
    /\ UNCHANGED <<inputs, state, locals, twin_vars, match_vars, advance_vars, reach_vars>>

\* Lines 628-653: the ensemble verifies the level_data; a solved level, or
\* the level_data of the last of MAX_ATTEMPTS attempts with an error, is
\* written, and the loop goes on with the next level.
BatchSolveBest ==
    /\ pc = "built"
    /\ \E outcome \in solve_level_best(level_data) :
          IF ~outcome.result.success /\ attempt + 1 < MAX_ATTEMPTS
          THEN /\ attempt' = attempt + 1
               /\ pc' = "retry"
               /\ UNCHANGED <<errors, level_number, seeds, files>>
          ELSE /\ files' = Append(files, written(level_data, outcome.result.success))
               /\ errors' = IF outcome.result.success THEN errors
                            ELSE Append(errors, "Solver failed")
               /\ attempt' = 0
               /\ seeds' = <<>>
               /\ IF level_number < BatchCount
                  THEN level_number' = level_number + 1 /\ pc' = "start"
                  ELSE level_number' = level_number /\ pc' = "generated"
    /\ UNCHANGED <<build_vars, ensemble_result, ensemble_vars, parallel_vars, clone_vars, choose_vars>>
    /\ UNCHANGED <<inputs, state, locals, twin_vars, match_vars, advance_vars, reach_vars>>

NextBatch ==
    \/ BatchGenerateLevel
    \/ PlaceTriple
    \/ MakeRoom
    \/ FixStartingTriple
    \/ EnsureNoEmptyContainers
    \/ EnsureSingleslotDepth
    \/ BatchSolveBest

SpecBatch == InitBatching /\ [][NextBatch]_vars

(***************************************************************************)
(* One call of solve_level_best, one run of solve_level per step.          *)
(*   pc = "start"      before the call                                     *)
(*   pc = "ensemble"   in the loops of lines 180-208, runs_done runs made  *)
(*   pc = "returned"   after the return; ensemble_result is the value      *)
(* level is level_dict, move_limit the local of that name, strategy,       *)
(* noise_seed and result the arguments and the result of the last run.     *)
(***************************************************************************)

\* A level_dict with its construction_moves entry (0: no entry).
EnsembleInput(lv, construction_moves) ==
    [containers |-> lv.containers, construction_moves |-> construction_moves]

\* The levels of two rows with one triple, one item of it in the 1-slot
\* container.
EnsembleLevels ==
    {lv \in DeepLevels :
        /\ Len(lv.containers[1].initial_items) = 2
        /\ Len(lv.containers[2].initial_items) = 1}

\* A level the Balanced strategy solves in 5 moves and others in 4: a behind
\* b in a 3-slot container, b over b in a 1-slot container.
ImprovableLayout == <<Unlocked(3, 2), Unlocked(3, 1), Unlocked(1, 2)>>
ImprovableLevel ==
    LevelOf(ImprovableLayout,
            [x \in LayoutCells(ImprovableLayout) |->
                CASE x \in {<<1, 1, 0>>, <<1, 2, 1>>, <<2, 2, 0>>} -> 1
                  [] x \in {<<1, 2, 0>>, <<3, 0, 0>>, <<3, 0, 1>>} -> 2
                  [] OTHER -> None])

\* The level dicts given to solve_level_best: the levels of one triple under
\* the counts 1..MaxMoveLimit, the improvable level under the 5 moves of its
\* first solution, and the tutorial without a count.
EnsembleInputs ==
    {EnsembleInput(lv, n) : lv \in EnsembleLevels, n \in 1..MaxMoveLimit}
    \cup {EnsembleInput(ImprovableLevel, 5), EnsembleInput(TutorialLevel, 0)}

\* What run_log keeps of a run: the limit passed and the outcome.
logged(limit, run_result) ==
    [move_limit |-> limit, success |-> run_result.success,
     total_moves |-> run_result.total_moves]

\* Faulty variant of best_is_none: the last-resort run is always made.
best_is_dropped(best) == TRUE

\* Line 210: no run of the ensemble was kept.
best_is_none(best) == best = <<>>

InitEnsembling == Init

\* Lines 173-178: the call, up to the first run.
EnsembleBegin ==
    /\ pc = "start"
    /\ \E level_dict \in EnsembleInputs :
          /\ level' = level_dict
          /\ move_limit' = first_move_limit(level_dict)
    /\ pc' = "ensemble"
    /\ runs_done' = 0
    /\ best_result' = <<>>
    /\ run_log' = {}
    /\ UNCHANGED <<strategy, noise_seed, state, locals>>
    /\ UNCHANGED <<attempt, ensemble_result, errors, parallel_vars, clone_vars, batch_vars, choose_vars>>
    /\ UNCHANGED <<twin_vars, match_vars, advance_vars, reach_vars, build_vars>>

\* Lines 182-189 and 193-208: one run of solve_level under the current
\* move_limit; a successful run with fewer moves than best becomes best and
\* its move count the limit.
EnsembleRun ==
    /\ pc = "ensemble"
    /\ runs_done < NumEnsembleRuns
    /\ LET next_run == ensemble_runs(runs_done + 1)
       IN  /\ strategy' = next_run.strategy
           /\ noise_seed' = next_run.noise_seed
           /\ \E run_result \in solve_level(level, next_run.strategy,
                                            next_run.noise_seed, move_limit) :
                 /\ result' = run_result
                 /\ best_result' = better_of(best_result, run_result)
                 /\ move_limit' = IF better_of(best_result, run_result) # best_result
                                  THEN run_result.total_moves ELSE move_limit
                 /\ run_log' = run_log \cup {logged(move_limit, run_result)}
    /\ runs_done' = runs_done + 1
    /\ UNCHANGED <<level, pc, state, effective_limit, noise_rng, last_move,
                   recent_moves, new_matches>>
    /\ UNCHANGED <<attempt, ensemble_result, errors, parallel_vars, clone_vars, batch_vars, choose_vars>>
    /\ UNCHANGED <<twin_vars, match_vars, advance_vars, reach_vars, build_vars>>

\* Lines 210-219: the last-resort run when nothing was kept, and the return.
EnsembleReturn ==
    /\ pc = "ensemble"
    /\ runs_done = NumEnsembleRuns
    /\ IF best_is_none(best_result)
       THEN /\ strategy' = NoStrategy
            /\ noise_seed' = 0
            /\ \E run_result \in solve_level(level, NoStrategy, 0, 0) :
                  /\ result' = run_result
                  /\ best_result' = <<run_result>>
                  /\ run_log' = run_log \cup {logged(0, run_result)}
                  /\ ensemble_result' = [result |-> run_result, fallback |-> TRUE]
       ELSE /\ ensemble_result' = [result |-> best_result[1], fallback |-> FALSE]
            /\ UNCHANGED <<strategy, noise_seed, result, best_result, run_log>>
    /\ pc' = "returned"
    /\ UNCHANGED <<level, move_limit, state, effective_limit, noise_rng, last_move,
                   recent_moves, new_matches, runs_done, attempt, errors,
                   parallel_vars, clone_vars, batch_vars, choose_vars>>
    /\ UNCHANGED <<twin_vars, match_vars, advance_vars, reach_vars, build_vars>>

NextEnsemble == EnsembleBegin \/ EnsembleRun \/ EnsembleReturn

SpecEnsemble == InitEnsembling /\ [][NextEnsemble]_vars

(***************************************************************************)
(* The runs of solve_level_best executed concurrently.  A run is a         *)
(* function of the level, its strategy and its seed: draws[i] is the       *)
(* result run i gives under the initial limit, and under a smaller limit   *)
(* the run makes the same moves until it returns.  A run reads move_limit  *)
(* when it is launched; the update of best and move_limit at its end       *)
(* (lines 183-185, 202-204) is one step.                                   *)
(*   pc = "start"      before the call                                     *)
(*   pc = "parallel"   runs pending, in flight or finished                 *)
(***************************************************************************)

\* The runs executed concurrently: the clean run of the first, second and
\* fourth strategy and the first restart of the first.
ParallelRuns == {1, 2, 5, 13}

\* The level dicts of the concurrent runs: the improvable level under the
\* limits 4 and 5, and the levels of one triple under the limit MaxMoveLimit.
ParallelInputs ==
    {EnsembleInput(ImprovableLevel, 4), EnsembleInput(ImprovableLevel, 5)}
    \cup {EnsembleInput(lv, MaxMoveLimit) : lv \in EnsembleLevels}

\* Sequence s is an initial part of sequence t.
IsPrefix(s, t) == Len(s) <= Len(t) /\ \A i \in 1..Len(s) : s[i] = t[i]

\* The run of solve_level that makes the moves of move_sequence, as far as
\* its limit lets it: the steps of run_next that stay on the sequence.
RECURSIVE run_drawn(_, _, _)
run_drawn(run, strat, move_sequence) ==
    IF run.pc = "done" THEN run
    ELSE run_drawn(CHOOSE r \in run_next(run, strat) :
                      r.pc = "done" \/ IsPrefix(r.result.move_sequence, move_sequence),
                   strat, move_sequence)

\* solve_level under a limit with the random draws that gave move_sequence.
solve_level_drawn(level_dict, strat, seed, limit, move_sequence) ==
    run_drawn(solve_begin(level_dict, strat, seed, limit), strat, move_sequence).result

\* The launched map without run i, and with run i started under limit.
finished(flight, i) == [j \in DOMAIN flight \ {i} |-> flight[j]]
started(flight, i, limit) ==
    [j \in DOMAIN flight \cup {i} |-> IF j = i THEN limit ELSE flight[j]]

InitParallelRuns == Init

\* Lines 173-178, and the strategy, seed and random draws of every run.
ParallelBegin ==
    /\ pc = "start"
    /\ \E level_dict \in ParallelInputs :
          /\ level' = level_dict
          /\ move_limit' = first_move_limit(level_dict)
          /\ draws' \in {d \in [ParallelRuns -> UNION {solve_level(level_dict,
                                      ensemble_runs(i).strategy,
                                      ensemble_runs(i).noise_seed,
                                      first_move_limit(level_dict)) : i \in ParallelRuns}] :
                            \A i \in ParallelRuns :
                                d[i] \in solve_level(level_dict, ensemble_runs(i).strategy,
                                                     ensemble_runs(i).noise_seed,
                                                     first_move_limit(level_dict))}
    /\ pc' = "parallel"
    /\ best_result' = <<>>
    /\ pending' = ParallelRuns
    /\ launched' = <<>>
    /\ UNCHANGED <<strategy, noise_seed, state, locals, runs_done, run_log>>
    /\ UNCHANGED <<attempt, ensemble_result, errors, clone_vars, batch_vars, choose_vars>>
    /\ UNCHANGED <<twin_vars, match_vars, advance_vars, reach_vars, build_vars>>

\* A run is started: it is given the move_limit of this moment.
Launch ==
    /\ pc = "parallel"
    /\ \E i \in pending :
          /\ pending' = pending \ {i}
          /\ launched' = started(launched, i, move_limit)
    /\ UNCHANGED <<inputs, pc, state, locals, ensemble_vars, draws>>
    /\ UNCHANGED <<attempt, ensemble_result, errors, clone_vars, batch_vars, choose_vars>>
    /\ UNCHANGED <<twin_vars, match_vars, advance_vars, reach_vars, build_vars>>

\* A run returns: its result is compared with best as in lines 183-185.
Finish ==
    /\ pc = "parallel"
    /\ \E i \in DOMAIN launched :
          LET run_result == solve_level_drawn(level, ensemble_runs(i).strategy,
                                              ensemble_runs(i).noise_seed, launched[i],
                                              draws[i].move_sequence)
          IN  /\ strategy' = ensemble_runs(i).strategy
              /\ noise_seed' = ensemble_runs(i).noise_seed
              /\ result' = run_result
              /\ best_result' = better_of(best_result, run_result)
              /\ move_limit' = IF better_of(best_result, run_result) # best_result
                               THEN run_result.total_moves ELSE move_limit
              /\ runs_done' = i
              /\ launched' = finished(launched, i)
    /\ UNCHANGED <<level, pc, state, effective_limit, noise_rng, last_move,
                   recent_moves, new_matches, run_log, pending, draws>>
    /\ UNCHANGED <<attempt, ensemble_result, errors, clone_vars, batch_vars, choose_vars>>
    /\ UNCHANGED <<twin_vars, match_vars, advance_vars, reach_vars, build_vars>>

NextParallel == ParallelBegin \/ Launch \/ Finish

SpecParallel == InitParallelRuns /\ [][NextParallel]_vars

(***************************************************************************)
(* One call of _score_move_unified with its objects.  heap maps the        *)
(* address of an object to the object: a GameState holds the addresses of  *)
(* its containers, a ContainerState the addresses of its slot lists, a     *)
(* list its cells.  Allocation n makes the objects of addresses <<_, n>>.  *)
(*   pc = "start"             before the call                              *)
(*   pc = "score"             at line 442                                  *)
(*   pc = "cloned"            test_state is bound (line 443)               *)
(*   pc = "moved"             the move is executed on test_state           *)
(*   pc = "follow"            fu_state is bound (line 475)                 *)
(*   pc = "deadlock"          at line 630                                  *)
(*   pc = "deadlock_cloned"   deadlock_test is bound (line 631)            *)
(*   pc = "scored"            after line 631                               *)
(***************************************************************************)
state_addr(n) == <<"GameState", n, 0, 0>>
container_addr(n, k) == <<"ContainerState", n, k, 0>>
list_addr(n, k, s) == <<"list", n, k, s>>

\* The number of the next allocation.
next_alloc(h) == Cardinality({a \in DOMAIN h : a[1] = "GameState"}) + 1

\* The GameState an address stands for: the objects read through it.
deref(h, addr) ==
    [containers |->
        [k \in DOMAIN h[addr].containers |->
            LET c == h[h[addr].containers[k]]
            IN  [id |-> c.id,
                 slot_count |-> c.slot_count,
                 max_rows |-> c.max_rows,
                 is_locked |-> c.is_locked,
                 unlock_matches_required |-> c.unlock_matches_required,
                 current_unlock_progress |-> c.current_unlock_progress,
                 slots |-> [s \in DOMAIN c.slots |-> h[c.slots[s]].cells]]],
     move_count |-> h[addr].move_count,
     match_count |-> h[addr].match_count]

\* Faulty variant of clone_slots: the clone keeps the slot lists of the
\* container it is cloned from.
share_slots(h, c, n, k) == [slots |-> c.slots, lists |-> <<>>]

\* Line 43 of ContainerState.clone, [list(s) for s in self.slots]: a new
\* list with the same cells for every slot.
clone_slots(h, c, n, k) ==
    [slots |-> [s \in DOMAIN c.slots |-> list_addr(n, k, s)],
     lists |-> [a \in {list_addr(n, k, s) : s \in DOMAIN c.slots} |->
                   [cells |-> h[c.slots[a[4]]].cells]]]

\* ContainerState.clone (lines 39-44): the new container object.
clone_container(h, c, n, k) ==
    [id |-> c.id, slot_count |-> c.slot_count, max_rows |-> c.max_rows,
     is_locked |-> c.is_locked,
     unlock_matches_required |-> c.unlock_matches_required,
     current_unlock_progress |-> c.current_unlock_progress,
     slots |-> clone_slots(h, c, n, k).slots]

\* The objects allocation n adds for the clone of the GameState at addr
\* (GameState.clone, lines 107-112).
RECURSIVE cloned_lists(_, _, _, _)
cloned_lists(h, addr, n, k) ==
    IF k \notin DOMAIN h[addr].containers THEN <<>>
    ELSE clone_slots(h, h[h[addr].containers[k]], n, k).lists
         @@ cloned_lists(h, addr, n, k + 1)

clone(h, addr, n) ==
    (state_addr(n) :>
        [containers |-> [k \in DOMAIN h[addr].containers |-> container_addr(n, k)],
         move_count |-> h[addr].move_count,
         match_count |-> h[addr].match_count])
    @@ [a \in {container_addr(n, k) : k \in DOMAIN h[addr].containers} |->
           clone_container(h, h[h[addr].containers[a[3]]], n, a[3])]
    @@ cloned_lists(h, addr, n, 0)

\* The objects of a board built by _initialize_state: every container with
\* the lists its constructor made (line 37).
RECURSIVE built_lists(_, _, _)
built_lists(board, n, k) ==
    IF k \notin DOMAIN board.containers THEN <<>>
    ELSE [a \in {list_addr(n, k, s) : s \in DOMAIN board.containers[k].slots} |->
             [cells |-> board.containers[k].slots[a[4]]]]
         @@ built_lists(board, n, k + 1)

built(board, n) ==
    (state_addr(n) :>
        [containers |-> [k \in DOMAIN board.containers |-> container_addr(n, k)],
         move_count |-> board.move_count,
         match_count |-> board.match_count])
    @@ [a \in {container_addr(n, k) : k \in DOMAIN board.containers} |->
           [board.containers[a[3]] EXCEPT
               !.slots = [s \in DOMAIN board.containers[a[3]].slots |->
                             list_addr(n, a[3], s)]]]
    @@ built_lists(board, n, 0)

\* The store after _execute_move or _process_all_matches changed the
\* GameState at addr to board: the counters are assigned in the GameState
\* object (lines 816, 879), the lock and the progress in its container
\* objects (lines 884-886), the cells in the lists of these containers
\* (lines 814-815, 838-842, 877).
store(h, addr, board) ==
    [a \in DOMAIN h |->
        IF a = addr
        THEN [h[a] EXCEPT !.move_count = board.move_count,
                          !.match_count = board.match_count]
        ELSE IF \E k \in DOMAIN h[addr].containers : h[addr].containers[k] = a
        THEN LET k == CHOOSE k \in DOMAIN h[addr].containers : h[addr].containers[k] = a
             IN  [h[a] EXCEPT !.is_locked = board.containers[k].is_locked,
                              !.current_unlock_progress =
                                  board.containers[k].current_unlock_progress]
        ELSE IF \E k \in DOMAIN h[addr].containers :
                    \E s \in DOMAIN h[h[addr].containers[k]].slots :
                        h[h[addr].containers[k]].slots[s] = a
        THEN LET ks == CHOOSE ks \in {<<k, s>> : k \in DOMAIN h[addr].containers,
                                                 s \in Range0(3)} :
                          /\ ks[2] \in DOMAIN h[h[addr].containers[ks[1]]].slots
                          /\ h[h[addr].containers[ks[1]]].slots[ks[2]] = a
             IN  [cells |-> board.containers[ks[1]].slots[ks[2]]]
        ELSE h[a]]

\* The levels whose boards are scored: a locked 1-slot container beside a
\* 3-slot and a deep 1-slot container, and the levels with a hidden row.
CloneLevels == SingleLevels \cup DeepLevels

\* Lines 446-450: the follow-up move looked for on test_state.
follow_up_on(test_board) ==
    IF would_match(test_board) THEN NoMove ELSE find_one_move_match(test_board)

InitCloning == Init

\* _find_best_move found no one-move match (line 323) and scores a move of
\* _get_all_valid_moves on the board of solve_level.
ScoreBegin ==
    /\ pc = "start"
    /\ \E lv \in CloneLevels :
          LET board == process_all_matches(initialize_state(lv)).state
          IN  /\ find_one_move_match(board) = NoMove
              /\ \E move \in pruned_moves(board) :
                    /\ state' = board
                    /\ candidate' = move
                    /\ heap' = built(board, 1)
                    /\ refs' = [NoRefs EXCEPT !.state = state_addr(1)]
    /\ pc' = "score"
    /\ UNCHANGED <<inputs, locals, ensemble_vars, parallel_vars>>
    /\ UNCHANGED <<attempt, ensemble_result, errors, batch_vars, choose_vars>>
    /\ UNCHANGED <<twin_vars, match_vars, advance_vars, reach_vars, build_vars>>

\* Line 442: test_state = state.clone().
CloneTestState ==
    /\ pc = "score"
    /\ heap' = heap @@ clone(heap, refs.state, next_alloc(heap))
    /\ refs' = [refs EXCEPT !.test_state = state_addr(next_alloc(heap))]
    /\ pc' = "cloned"
    /\ UNCHANGED <<inputs, state, locals, candidate, ensemble_vars, parallel_vars>>
    /\ UNCHANGED <<attempt, ensemble_result, errors, batch_vars, choose_vars>>
    /\ UNCHANGED <<twin_vars, match_vars, advance_vars, reach_vars, build_vars>>

\* Line 443: _execute_move(test_state, move).
ExecuteOnTestState ==
    /\ pc = "cloned"
    /\ heap' = store(heap, refs.test_state,
                     execute_move(deref(heap, refs.test_state), candidate))
    /\ pc' = "moved"
    /\ UNCHANGED <<inputs, state, locals, refs, candidate, ensemble_vars, parallel_vars>>
    /\ UNCHANGED <<attempt, ensemble_result, errors, batch_vars, choose_vars>>
    /\ UNCHANGED <<twin_vars, match_vars, advance_vars, reach_vars, build_vars>>

\* Lines 446-474: with a follow-up move, fu_state = test_state.clone().
CloneFollowUpState ==
    /\ pc = "moved"
    /\ IF follow_up_on(deref(heap, refs.test_state)) # NoMove
       THEN /\ heap' = heap @@ clone(heap, refs.test_state, next_alloc(heap))
            /\ refs' = [refs EXCEPT !.fu_state = state_addr(next_alloc(heap))]
            /\ pc' = "follow"
       ELSE /\ UNCHANGED <<heap, refs>>
            /\ pc' = "deadlock"
    /\ UNCHANGED <<inputs, state, locals, candidate, ensemble_vars, parallel_vars>>
    /\ UNCHANGED <<attempt, ensemble_result, errors, batch_vars, choose_vars>>
    /\ UNCHANGED <<twin_vars, match_vars, advance_vars, reach_vars, build_vars>>

\* Lines 475-476: _execute_move(fu_state, follow_up) and
\* _process_all_matches(fu_state).
ExecuteFollowUp ==
    /\ pc = "follow"
    /\ heap' = store(store(heap, refs.fu_state,
                           execute_move(deref(heap, refs.fu_state),
                                        follow_up_on(deref(heap, refs.test_state)))),
                     refs.fu_state,
                     process_all_matches(
                         execute_move(deref(heap, refs.fu_state),
                                      follow_up_on(deref(heap, refs.test_state)))).state)
    /\ pc' = "deadlock"
    /\ UNCHANGED <<inputs, state, locals, refs, candidate, ensemble_vars, parallel_vars>>
    /\ UNCHANGED <<attempt, ensemble_result, errors, batch_vars, choose_vars>>
    /\ UNCHANGED <<twin_vars, match_vars, advance_vars, reach_vars, build_vars>>

\* Line 630: deadlock_test = test_state.clone().
CloneDeadlockTest ==
    /\ pc = "deadlock"
    /\ heap' = heap @@ clone(heap, refs.test_state, next_alloc(heap))
    /\ refs' = [refs EXCEPT !.deadlock_test = state_addr(next_alloc(heap))]
    /\ pc' = "deadlock_cloned"
    /\ UNCHANGED <<inputs, state, locals, candidate, ensemble_vars, parallel_vars>>
    /\ UNCHANGED <<attempt, ensemble_result, errors, batch_vars, choose_vars>>
    /\ UNCHANGED <<twin_vars, match_vars, advance_vars, reach_vars, build_vars>>

\* Line 631: _process_all_matches(deadlock_test).
ProcessDeadlockTest ==
    /\ pc = "deadlock_cloned"
    /\ heap' = store(heap, refs.deadlock_test,
                     process_all_matches(deref(heap, refs.deadlock_test)).state)
    /\ pc' = "scored"
    /\ UNCHANGED <<inputs, state, locals, refs, candidate, ensemble_vars, parallel_vars>>
    /\ UNCHANGED <<attempt, ensemble_result, errors, batch_vars, choose_vars>>
    /\ UNCHANGED <<twin_vars, match_vars, advance_vars, reach_vars, build_vars>>

NextClone ==
    \/ ScoreBegin
    \/ CloneTestState
    \/ ExecuteOnTestState
    \/ CloneFollowUpState
    \/ ExecuteFollowUp
    \/ CloneDeadlockTest
    \/ ProcessDeadlockTest

SpecClone == InitCloning /\ [][NextClone]_vars

(***************************************************************************)
(* solve_level on level dicts with malformed containers.                   *)
(*   pc = "start"         before the call                                  *)
(*   pc = "initialized"   after line 234, state = _initialize_state(...)   *)
(*   pc = "loop", "done"  as in solve_level                                *)
(***************************************************************************)
\* The declared slot counts and row counts of the malformed container.
DeclaredSlotCounts == {0 - 1, 0, 2}
DeclaredMaxRows == {0 - 2, 0, 2}

Item(id, slot, row) == [id |-> id, row |-> row, slot |-> slot]

\* Declared initial items: in the grid, left or right of it, before or
\* behind it, and one of another type in cell (0, 0).
DeclaredItems ==
    {Item(1, 1, 0), Item(1, 0 - 1, 0), Item(1, 3, 0), Item(1, 2, 0),
     Item(1, 0, 0 - 1), Item(1, 0, 4), Item(1, 0, 3), Item(1, 0, 1),
     Item(2, 0, 0)}

\* A malformed container beside a 3-slot container holding one item.
MalformedLevel(slot_count, max_rows, b, c) ==
    [containers |->
        <<[id |-> 1, slot_count |-> slot_count, max_rows_per_slot |-> max_rows,
           is_locked |-> FALSE, unlock_matches_required |-> 0,
           initial_items |-> <<Item(1, 0, 0), b, c>>],
          [id |-> 2, slot_count |-> 3, max_rows_per_slot |-> 1,
           is_locked |-> FALSE, unlock_matches_required |-> 0,
           initial_items |-> <<Item(1, 0, 0)>>]>>]

MalformedLevels ==
    {MalformedLevel(slot_count, max_rows, b, c) :
        slot_count \in DeclaredSlotCounts, max_rows \in DeclaredMaxRows,
        b \in DeclaredItems, c \in DeclaredItems}

\* The test of line 235: state is None.
state_is_none(st) == "containers" \notin DOMAIN st

\* Lines 235-238: the return without a state.
solve_uninitialized ==
    [IdleRun EXCEPT !.pc = "done",
                    !.result.failure_reason = "Failed to initialize state"]

InitInitializing == Init

\* Lines 225-234: the call with its state built.
InitializeState ==
    /\ pc = "start"
    /\ \E lv \in MalformedLevels :
          /\ SetInputs(Input(lv, BALANCED, 0, MaxMoveLimit))
          /\ state' = initialize_state(lv)
    /\ pc' = "initialized"
    /\ UNCHANGED <<locals, twin_vars, match_vars, advance_vars, other_vars>>

\* Lines 235-244: the return of a failed initialization, or the run at its
\* first while test.
InitializeChecked ==
    /\ pc = "initialized"
    /\ IF state_is_none(state)
       THEN SetRun(solve_uninitialized)
       ELSE SetRun([solve_begin(level, strategy, noise_seed, move_limit)
                       EXCEPT !.state = process_all_matches(state).state])
    /\ UNCHANGED <<inputs, twin_vars, match_vars, advance_vars, other_vars>>

NextInitialize == InitializeState \/ InitializeChecked \/ SolveStep \/ SolveReturn

SpecInitialize == InitInitializing /\ [][NextInitialize]_vars

(***************************************************************************)
(* solve_level with _find_best_move step by step and its noise drawn.      *)
(*   pc = "loop"     at the while test of line 246                         *)
(*   pc = "scored"   at line 366: scored holds (score, move) of every      *)
(*                   move of all_moves, in order, with the value of        *)
(*                   _score_move_unified and the noise draw of the move    *)
(***************************************************************************)
\* The draws of noise_rng.randint(-magnitude, magnitude) explored.
NoiseDraws(magnitude) == {0 - magnitude, 0 - 1, 0, 1, magnitude}

\* Faulty variant of stays_before: an entry goes before the entries of its
\* score.
stays_before_greater(y, x) == y.score > x.score

\* list.sort(key=lambda x: -x[0]) is stable: an entry y that was appended
\* before x stays before it unless its score is lower.
stays_before(y, x) == y.score >= x.score

\* x put into a list sorted by descending score, behind the entries that
\* stay before it.
RECURSIVE sorted_insert(_, _)
sorted_insert(sorted, x) ==
    IF sorted = <<>> THEN <<x>>
    ELSE IF stays_before(Head(sorted), x)
    THEN <<Head(sorted)>> \o sorted_insert(Tail(sorted), x)
    ELSE <<x>> \o sorted

\* Line 366: the list sorted by descending score.
RECURSIVE sort_scored(_, _)
sort_scored(list, n) ==
    IF n = 0 THEN <<>> ELSE sorted_insert(sort_scored(list, n - 1), list[n])

\* The calls explored: levels with a hidden row or a locked container, with
\* and without noise.
ChooseInputs ==
    {Input(lv, BALANCED, 0, MaxMoveLimit) :
        lv \in DeepLevels \cup SingleLevels \cup {WanderingLevel}}
    \cup {Input(lv, noise_strategy(BALANCED, 1), 1, MaxMoveLimit) :
            lv \in DeepLevels \cup {WanderingLevel}}
    \cup {Input(lv, strat, 0, MaxMoveLimit) :
            lv \in OpenLevels \cup {WanderingLevel},
            strat \in {NoStrategy, PAIR_FOCUSED, CAUTIOUS}}

InitChoosing == Init

ChooseBegin ==
    /\ pc = "start"
    /\ \E input \in ChooseInputs :
          /\ SetInputs(input)
          /\ SetRun(solve_begin(input.level, input.strategy, input.noise_seed,
                                input.move_limit))
    /\ UNCHANGED <<twin_vars, match_vars, advance_vars, other_vars>>

\* Lines 322-335: the one-move match is returned and executed, or there is
\* no move and solve_level returns.
TakeOneMoveMatch ==
    /\ pc = "loop"
    /\ loop_continues(Run)
    /\ \/ find_one_move_match(state) # NoMove
       \/ get_all_valid_moves(state) = <<>>
    /\ best_move' = find_one_move_match(state)
    /\ scored' = <<>>
    /\ SetRun(IF best_move' = NoMove THEN solve_no_moves(Run)
              ELSE solve_iteration(Run, best_move'))
    /\ UNCHANGED <<inputs, twin_vars, match_vars, advance_vars, reach_vars, build_vars>>
    /\ UNCHANGED <<attempt, ensemble_result, errors>>
    /\ UNCHANGED <<ensemble_vars, parallel_vars, clone_vars, batch_vars>>

\* Lines 337-364: every move of all_moves is scored, with its penalties and
\* its noise draw, and appended to scored.
ScoreAllMoves ==
    /\ pc = "loop"
    /\ loop_continues(Run)
    /\ find_one_move_match(state) = NoMove
    /\ get_all_valid_moves(state) # <<>>
    /\ LET all_moves == get_all_valid_moves(state)
       IN  \E noise \in [1..Len(all_moves) ->
                           IF noise_applies(strategy, noise_rng)
                           THEN NoiseDraws(strategy.noise_magnitude) ELSE {0}] :
              scored' = [i \in 1..Len(all_moves) |->
                            [score |-> penalized_score(state, all_moves[i], last_move,
                                                       recent_moves, strategy)
                                       + noise[i],
                             move |-> all_moves[i],
                             unified |-> score_move_unified(state, all_moves[i], strategy),
                             noise |-> noise[i]]]
    /\ pc' = "scored"
    /\ UNCHANGED <<inputs, state, locals, best_move>>
    /\ UNCHANGED <<twin_vars, match_vars, advance_vars, reach_vars, build_vars>>
    /\ UNCHANGED <<attempt, ensemble_result, errors>>
    /\ UNCHANGED <<ensemble_vars, parallel_vars, clone_vars, batch_vars>>

\* Lines 366-371 and 257-268: the head of the sorted list is returned and
\* executed.
TakeBestScored ==
    /\ pc = "scored"
    /\ best_move' = sort_scored(scored, Len(scored))[1].move
    /\ SetRun(solve_iteration([Run EXCEPT !.pc = "loop"], best_move'))
    /\ UNCHANGED <<inputs, scored>>
    /\ UNCHANGED <<twin_vars, match_vars, advance_vars, reach_vars, build_vars>>
    /\ UNCHANGED <<attempt, ensemble_result, errors>>
    /\ UNCHANGED <<ensemble_vars, parallel_vars, clone_vars, batch_vars>>

NextChoose ==
    \/ ChooseBegin
    \/ TakeOneMoveMatch
    \/ ScoreAllMoves
    \/ TakeBestScored
    \/ SolveReturn

SpecChoose == InitChoosing /\ [][NextChoose]_vars

(***************************************************************************)
(* Properties of solve_level.                                              *)
(***************************************************************************)
Solved == result.success

FailedNoMoves == ~result.success /\ result.failure_reason = "No valid moves"

FailedLimitExceeded == ~result.success /\ result.failure_reason = "Max moves exceeded"

ExactlyOneOutcome ==
    \/ Solved /\ ~FailedNoMoves /\ ~FailedLimitExceeded
    \/ ~Solved /\ FailedNoMoves /\ ~FailedLimitExceeded
    \/ ~Solved /\ ~FailedNoMoves /\ FailedLimitExceeded

\* C1: every call of solve_level returns, the returned result is exactly one
\* of Solved, Failed('No valid moves') and Failed('Max moves exceeded'), and
\* nothing happens after the return.
C1_TerminatesInOneOutcome ==
    /\ <>(pc = "done")
    /\ [](pc = "done" => ExactlyOneOutcome)
    /\ [][pc # "done"]_vars

\* A call under the default limit that ran to MAX_MOVES moves.
C1_Witness ==
    /\ pc = "done"
    /\ move_limit = 0
    /\ FailedLimitExceeded
    /\ result.total_moves = MAX_MOVES

\* Every cell of every container of the board is empty.
BoardEmpty(board) ==
    \A k \in DOMAIN board.containers :
        \A s \in DOMAIN board.containers[k].slots :
            \A r \in DOMAIN board.containers[k].slots[s] :
                board.containers[k].slots[s][r] = None

\* C2: at return, success holds exactly when every cell of the working board
\* is empty; a failure carries a non-empty reason and a success an empty one.
C2_SuccessIffBoardEmpty ==
    pc = "done" =>
        /\ result.success <=> BoardEmpty(state)
        /\ ~result.success => result.failure_reason # ""
        /\ result.success => result.failure_reason = ""

\* A level with hidden rows solved by moves.
C2_Witness ==
    /\ pc = "done"
    /\ result.success
    /\ result.total_moves >= 2
    /\ \E k \in DOMAIN state.containers : state.containers[k].max_rows >= 2

\* The move m is legal on the board: different unlocked containers, the
\* source front cell holds the item, the destination front cell is empty.
LegalMove(board, m) ==
    /\ m.from_container \in DOMAIN board.containers
    /\ m.to_container \in DOMAIN board.containers
    /\ m.from_container # m.to_container
    /\ ~board.containers[m.from_container].is_locked
    /\ ~board.containers[m.to_container].is_locked
    /\ m.from_slot \in DOMAIN board.containers[m.from_container].slots
    /\ m.to_slot \in DOMAIN board.containers[m.to_container].slots
    /\ m.item_id # None
    /\ board.containers[m.from_container].slots[m.from_slot][0] = m.item_id
    /\ board.containers[m.to_container].slots[m.to_slot][0] = None

\* The step executes a move: the move sequence grows by one.
MoveExecuted == Len(result'.move_sequence) = Len(result.move_sequence) + 1

ExecutedMove == result'.move_sequence[Len(result'.move_sequence)]

\* C3: every move solve_level executes is legal on the board it is executed
\* on; in particular no locked container is its source or destination.
C3_ExecutedMovesLegal ==
    [][MoveExecuted => LegalMove(state, ExecutedMove)]_vars

\* Two moves were executed while some container stayed locked.
C3_Witness ==
    /\ Len(result.move_sequence) >= 2
    /\ \E k \in DOMAIN state.containers :
          state.containers[k].is_locked /\ ~container_is_empty(state.containers[k])

\* C4: with a strategy without noise (or none), a second call on the same
\* level, strategy and limit goes through the same boards and returns the
\* same move sequence, move count and match count whatever its noise_seed,
\* and neither call creates the noise generator.
C4_DeterministicWithoutNoise ==
    (strategy = NoStrategy \/ strategy.noise_magnitude = 0) =>
        /\ twin.pc = pc
        /\ twin.state = state
        /\ twin.result.move_sequence = result.move_sequence
        /\ twin.result.total_moves = result.total_moves
        /\ twin.result.total_matches = result.total_matches
        /\ twin.result = result
        /\ noise_rng = NoRng
        /\ twin.noise_rng = NoRng

\* Two calls with different seeds returned after three moves or more.
C4_Witness ==
    /\ pc = "done"
    /\ twin.pc = "done"
    /\ twin_seed # noise_seed
    /\ strategy # NoStrategy
    /\ Len(result.move_sequence) >= 3
    /\ Len(twin.result.move_sequence) >= 3

\* The move m puts the third item of its type into an unlocked 3-slot
\* container whose front row holds two of that item and one empty slot.
CompletesTriple(board, m) ==
    /\ LegalMove(board, m)
    /\ board.containers[m.to_container].slot_count = 3
    /\ Cardinality({s \in DOMAIN board.containers[m.to_container].slots :
                      board.containers[m.to_container].slots[s][0] = m.item_id}) = 2
    /\ Cardinality({s \in DOMAIN board.containers[m.to_container].slots :
                      board.containers[m.to_container].slots[s][0] = None}) = 1

\* Some legal move on the board completes a triple.
TripleMoveExists(board) ==
    \E k1 \in DOMAIN board.containers, k2 \in DOMAIN board.containers :
        \E s1 \in DOMAIN board.containers[k1].slots,
           s2 \in DOMAIN board.containers[k2].slots :
            CompletesTriple(board, Move(k1, s1, k2, s2, board.containers[k1].slots[s1][0]))

\* The while test of solve_level passes: the solver takes a step.
AtSolverStep ==
    /\ pc = "loop"
    /\ ~BoardEmpty(state)
    /\ state.move_count < effective_limit

\* C5: at a solver step where some legal move completes a triple, the move
\* executed completes a triple, whatever the strategy, history and noise,
\* and the match processing after it reports at least one match.
C5_TripleMoveTaken ==
    [][(AtSolverStep /\ TripleMoveExists(state)) =>
          /\ MoveExecuted
          /\ CompletesTriple(state, ExecutedMove)
          /\ new_matches' >= 1]_vars

\* A triple was completed by a move under a strategy with noise, after a
\* move that completed none.
C5_Witness ==
    /\ strategy.noise_magnitude > 0
    /\ Len(result.move_sequence) >= 2
    /\ new_matches >= 1

(***************************************************************************)
(* Properties of _process_all_matches.                                     *)
(***************************************************************************)

\* The front row of a container is completely filled with one item type.
FullFrontRow(c) ==
    /\ \A s \in DOMAIN c.slots : c.slots[s][0] # None
    /\ \A s1 \in DOMAIN c.slots, s2 \in DOMAIN c.slots : c.slots[s1][0] = c.slots[s2][0]

\* The items of a slot, front first, without the empty cells.
RECURSIVE SlotItems(_, _)
SlotItems(slot, r) ==
    IF r \notin DOMAIN slot THEN <<>>
    ELSE (IF slot[r] = None THEN <<>> ELSE <<slot[r]>>) \o SlotItems(slot, r + 1)

\* Container c2 is container c without its front row: every slot lost its
\* front item and kept the others, in order.
FrontRowCleared(c, c2) ==
    /\ DOMAIN c2.slots = DOMAIN c.slots
    /\ \A s \in DOMAIN c.slots :
          /\ c.slots[s][0] # None
          /\ SlotItems(c2.slots[s], 0) = Tail(SlotItems(c.slots[s], 0))
    /\ has_back_row_items(c) \/ \A s \in DOMAIN c2.slots : c2.slots[s][0] = None

\* The step visits container ci of the for loop.
ContainerVisited == pc = "for" /\ ci' = ci + 1

\* C6: a visited container is matched (front row cleared, match_count + 1)
\* exactly when it has 3 or more slots and a front row completely filled
\* with one item type; otherwise the board is left as it is.
C6_MatchedIffFullFrontRow ==
    [][ContainerVisited =>
          IF state.containers[ci].slot_count >= 3 /\ FullFrontRow(state.containers[ci])
          THEN /\ state'.match_count = state.match_count + 1
               /\ FrontRowCleared(state.containers[ci], state'.containers[ci])
               /\ \A k \in DOMAIN state.containers :
                     k # ci => state'.containers[k].slots = state.containers[k].slots
          ELSE state' = state]_vars

\* A container was matched on a board where a 1-slot container is left with
\* an item in its front cell and a 3-slot container with a front row of
\* items and an empty cell.
C6_Witness ==
    /\ pc = "returned"
    /\ total = 1
    /\ \E k \in DOMAIN state.containers :
          state.containers[k].slot_count = 1 /\ state.containers[k].slots[0][0] # None
    /\ \E k \in DOMAIN state.containers :
          /\ state.containers[k].slot_count = 3
          /\ \E s \in DOMAIN state.containers[k].slots : state.containers[k].slots[s][0] # None
          /\ \E s \in DOMAIN state.containers[k].slots : state.containers[k].slots[s][0] = None

\* C7: every call of _process_all_matches returns, and at its return no
\* container of 3 or more slots has a front row completely filled with one
\* item type.
C7_ReturnsAtFixedPoint ==
    /\ <>(pc = "returned")
    /\ [](pc = "returned" =>
            \A k \in DOMAIN state.containers :
                state.containers[k].slot_count >= 3 => ~FullFrontRow(state.containers[k]))

\* A call that matched a row exposed by a row advance: a container of two
\* rows, full at the call, is empty at the return.
C7_Witness ==
    /\ pc = "returned"
    /\ \E k \in DOMAIN entry.containers :
          /\ entry.containers[k].max_rows = 2
          /\ container_total_item_count(entry.containers[k]) = 6
          /\ container_total_item_count(state.containers[k]) = 0

\* The board is one 3-slot 2-row container with a front row of one type and
\* a back row of another.
CascadeBoard(board) ==
    /\ DOMAIN board.containers = {0}
    /\ board.containers[0].slot_count = 3
    /\ board.containers[0].max_rows = 2
    /\ \A s \in 0..2 : board.containers[0].slots[s][0] = 1
    /\ \A s \in 0..2 : board.containers[0].slots[s][1] = 2

\* The items on a board.
ItemCount(board) ==
    Cardinality({x \in UNION {{<<k, s, r>> : s \in DOMAIN board.containers[k].slots,
                                             r \in 0..(board.containers[k].max_rows - 1)} :
                              k \in DOMAIN board.containers} :
                    board.containers[x[1]].slots[x[2]][x[3]] # None})

\* C8: _process_all_matches leaves move_count as it is, and returns the
\* number of matches it performed, which is the increase of match_count; on
\* the [A,A,A] over [B,B,B] container it returns 2 and leaves the board
\* empty, and solve_level on that level succeeds with 0 moves.
C8_ConsumesNoMove ==
    /\ pc \in {"for", "returned"} => state.move_count = entry.move_count
    /\ pc = "returned" =>
          /\ total = state.match_count - entry.match_count
          /\ 3 * total = ItemCount(entry) - ItemCount(state)
    /\ (pc = "returned" /\ CascadeBoard(entry)) =>
          /\ total = 2
          /\ BoardEmpty(state)
          /\ solve_return(solve_begin(level, strategy, noise_seed, move_limit)).result.success
          /\ solve_return(solve_begin(level, strategy, noise_seed, move_limit)).result.total_moves = 0

\* The call on the [A,A,A] over [B,B,B] container returned.
C8_Witness ==
    /\ pc = "returned"
    /\ CascadeBoard(entry)
    /\ total = 2

\* The step processes a match.
MatchProcessed == pc = "for" /\ state'.match_count = state.match_count + 1

\* C10: on every processed match each locked container gains exactly one
\* unlock progress and is unlocked exactly when its progress then reaches
\* its requirement; an unlocked container stays unlocked and keeps its
\* progress, and without a match no lock or progress changes.
C10_UnlockProgress ==
    [][pc = "for" =>
          \A k \in DOMAIN state.containers :
              IF MatchProcessed /\ state.containers[k].is_locked
              THEN /\ state'.containers[k].current_unlock_progress =
                          state.containers[k].current_unlock_progress + 1
                   /\ state'.containers[k].is_locked <=>
                          ~(state'.containers[k].current_unlock_progress >=
                                state.containers[k].unlock_matches_required)
              ELSE /\ state'.containers[k].is_locked = state.containers[k].is_locked
                   /\ state'.containers[k].current_unlock_progress =
                          state.containers[k].current_unlock_progress]_vars

\* A container locked at the call was unlocked by the call when its
\* progress reached its requirement, and a match was processed after that.
C10_Witness ==
    /\ pc = "returned"
    /\ \E k \in DOMAIN entry.containers :
          /\ entry.containers[k].is_locked
          /\ ~state.containers[k].is_locked
          /\ state.containers[k].current_unlock_progress = state.containers[k].unlock_matches_required
          /\ state.containers[k].current_unlock_progress < total

(***************************************************************************)
(* Properties of _check_and_advance_rows.                                  *)
(***************************************************************************)

\* The rows of a slot holding an item.
OccupiedRows(slot) == {r \in DOMAIN slot : slot[r] # None}

\* The first row of a slot holding an item.
FirstOccupiedRow(slot) ==
    CHOOSE r \in OccupiedRows(slot) : \A q \in OccupiedRows(slot) : r <= q

\* The slot shifted toward the front by n rows, the vacated rows empty.
ShiftedBy(slot, n) ==
    [r \in DOMAIN slot |-> IF r + n \in DOMAIN slot THEN slot[r + n] ELSE None]

\* C9: _check_and_advance_rows changes the container only when all its front
\* cells are empty and some back-row cell is not; then every slot holding an
\* item is shifted toward the front by the index of its first non-empty row
\* (row 0 becomes non-empty, order and spacing kept, vacated rows empty), the
\* other slots and fields are left as they are.
C9_AdvancePerSlot ==
    pc = "returned" =>
        IF /\ \A s \in DOMAIN before.slots : before.slots[s][0] = None
           /\ \E s \in DOMAIN before.slots : OccupiedRows(before.slots[s]) # {}
        THEN /\ after = [before EXCEPT !.slots = after.slots]
             /\ DOMAIN after.slots = DOMAIN before.slots
             /\ \A s \in DOMAIN before.slots :
                   IF OccupiedRows(before.slots[s]) = {}
                   THEN after.slots[s] = before.slots[s]
                   ELSE /\ after.slots[s] =
                              ShiftedBy(before.slots[s], FirstOccupiedRow(before.slots[s]))
                        /\ after.slots[s][0] # None
                        /\ SlotItems(after.slots[s], 0) = SlotItems(before.slots[s], 0)
        ELSE after = before

\* An advance that shifted a slot of two items by one row and a slot of one
\* item by two rows.
C9_Witness ==
    /\ pc = "returned"
    /\ after # before
    /\ \E s1 \in DOMAIN before.slots, s2 \in DOMAIN before.slots :
          /\ OccupiedRows(before.slots[s1]) = {1, 2}
          /\ OccupiedRows(before.slots[s2]) = {2}
    /\ before.max_rows = 3

(***************************************************************************)
(* Properties of _get_all_valid_moves.                                     *)
(***************************************************************************)

\* The lowest-index empty front slot of container k of the board.
LowestEmptySlot(board, k, s) ==
    /\ board.containers[k].slots[s][0] = None
    /\ \A q \in Range0(s) : board.containers[k].slots[q][0] # None

\* Container k is unlocked and completely empty (all rows).
EmptyUnlocked(board, k) ==
    /\ ~board.containers[k].is_locked
    /\ \A s \in DOMAIN board.containers[k].slots :
          \A r \in DOMAIN board.containers[k].slots[s] :
              board.containers[k].slots[s][r] = None

\* The list of _get_all_valid_moves on the board obeys both pruning rules.
PruningRules(board) ==
    \A i \in DOMAIN get_all_valid_moves(board) :
        LET m == get_all_valid_moves(board)[i]
        IN  /\ LowestEmptySlot(board, m.to_container, m.to_slot)
            /\ EmptyUnlocked(board, m.to_container) =>
                  \A k \in DOMAIN board.containers :
                      (/\ EmptyUnlocked(board, k)
                       /\ board.containers[k].slot_count =
                              board.containers[m.to_container].slot_count)
                      => m.to_container <= k

\* C11: on every board the list of _get_all_valid_moves holds only moves
\* into the lowest-index empty front slot of their destination, and a
\* completely empty unlocked destination is the lowest-index one among the
\* completely empty unlocked containers of its slot_count.
C11_PruningRules ==
    pc = "reach" => \A b \in front_full : PruningRules(b)

\* A board of the last layer has two empty unlocked containers of one
\* slot_count and a destination with two empty front slots, and moves.
C11_Witness ==
    /\ pc = "reach"
    /\ \E b \in front_full :
          /\ get_all_valid_moves(b) # <<>>
          /\ \E k \in DOMAIN b.containers, j \in DOMAIN b.containers :
                /\ k # j
                /\ EmptyUnlocked(b, k) /\ EmptyUnlocked(b, j)
                /\ b.containers[k].slot_count = b.containers[j].slot_count
          /\ \E k \in DOMAIN b.containers :
                /\ ~EmptyUnlocked(b, k)
                /\ get_empty_front_slot_count(b.containers[k]) >= 2

\* Some board of the set is cleared.
Cleared(boards) == \E b \in boards : BoardEmpty(b)

\* C12: for every board and every number of moves, the board is cleared
\* within that many moves of _get_all_valid_moves exactly when it is cleared
\* within that many legal moves: the same boards are clearable, in the same
\* minimum number of moves.
C12_PruningLosesNothing ==
    pc = "reach" => (Cleared(seen_pruned) <=> Cleared(seen_full))

\* A board cleared in 3 or more moves where the legal moves reach boards
\* that the moves of _get_all_valid_moves do not.
C12_Witness ==
    /\ pc = "reach"
    /\ depth >= 3
    /\ Cleared(seen_pruned)
    /\ ~Cleared(seen_pruned \ front_pruned)
    /\ seen_full # seen_pruned

(***************************************************************************)
(* The tutorial board.                                                     *)
(***************************************************************************)

\* C20: on the tutorial board [A,A,_], [B,B,_], [A,B,_] solve_level with the
\* default move limit returns success with exactly 2 moves and 2 matches,
\* for every strategy, with and without noise.
C20_TutorialTwoMoves ==
    (pc = "done" /\ level = TutorialLevel /\ move_limit = 0) =>
        /\ result.success
        /\ result.total_moves = 2
        /\ result.total_matches = 2
        /\ Len(result.move_sequence) = 2

\* The call on the tutorial board with a noisy strategy returned.
C20_Witness ==
    /\ pc = "done"
    /\ level = TutorialLevel
    /\ move_limit = 0
    /\ strategy.noise_magnitude > 0
    /\ strategy.caution_weight # BALANCED.caution_weight


(***************************************************************************)
(* Properties of reverse_place_items.                                      *)
(***************************************************************************)
Building == pc \in {"place", "fix", "depth", "built"}

Returned == pc = "built"

\* The cells of the grid holding an item type.
CellsOf(item) == {x \in DOMAIN grid : grid[x] = item}

\* The triples of an item type placed so far.
Placed(item) == {j \in 1..total_triples : all_triples[j] = item}

\* C15: after reverse_place_items returns, the board holds exactly 3 items
\* per placed triple and every item type a multiple of 3 times; no step of
\* the construction (push, place, scatter, variance move, make-room pass,
\* repair passes) loses, duplicates or overwrites an item, so each type is
\* there 3 times per triple of it placed so far.
C15_ItemsInTriples ==
    /\ Building =>
          \A item \in Items : Cardinality(CellsOf(item)) = 3 * Cardinality(Placed(item))
    /\ Returned =>
          /\ Cardinality({x \in DOMAIN grid : grid[x] # None}) = 3 * total_triples
          /\ \A item \in Items : Cardinality(CellsOf(item)) % 3 = 0

\* A returned board of three triples, built with a push, a variance move
\* and a swap of _fix_starting_triples.
C15_Witness ==
    /\ Returned
    /\ total_triples = 3
    /\ \E j \in 1..Len(trace) : trace[j].variance # {}
    /\ \E x \in DOMAIN grid : x[3] > 0 /\ grid[x] # None
    /\ fix_iterations > 0 /\ fix_iterations < MAX_FIX_ITERATIONS


\* Row r of container cid is full of one item type.
SameTypeRow(cid, r) ==
    \A s \in SlotsOf(cid) :
        grid[<<cid, s, r>>] # None /\ grid[<<cid, s, r>>] = grid[<<cid, 0, r>>]

\* C16: after reverse_place_items returns, no container of 3 or more slots
\* has a row, front or back, whose cells all hold the same item type.
C16_NoStartingTriple ==
    Returned =>
        \A cid \in ContainerIds : \A r \in Range0(c_rows(cid)) :
            containers[cid].slot_count >= 3 => ~SameTypeRow(cid, r)


\* C17: after reverse_place_items returns, with all repair passes done,
\* every container, locked or unlocked, of 1 slot or of 3, holds an item.
C17_NoEmptyContainer ==
    Returned => \A cid \in ContainerIds : \E x \in DOMAIN grid : x[1] = cid /\ grid[x] # None


\* The containers a triple used: host, scatter destinations, source and
\* destination of the variance move.
UsedBy(step) == {step.host} \cup step.scattered_to \cup step.variance

\* The loop of lines 154-258 has ended.
LoopDone == pc \in {"fix", "depth", "built"}

\* C18: a locked container requiring N unlocking matches is not the host,
\* a scatter destination or an end of a variance move of any of the final N
\* triples processed by the construction loop.
C18_LockedCutoff ==
    LoopDone =>
        \A cid \in ContainerIds :
            containers[cid].is_locked =>
                \A j \in 1..Len(trace) :
                    j > Len(trace) - containers[cid].unlock_matches_required
                        => cid \notin UsedBy(trace[j])


\* The front cells of a container that received an item in the step.
ReceivedInFront(cid) ==
    {x \in DOMAIN grid : x[1] = cid /\ x[3] = 0 /\ grid[x] = None /\ grid'[x] # None}

\* A step of the loop that placed a triple.
TriplePlaced == pc = "place" /\ total_triples' = total_triples + 1

\* C19: during the construction loop a container classified off-screen is
\* never a scatter destination and never the source or destination of a
\* variance move: in an iteration of the loop it changes only as the host
\* of the triple, and then by the push, the placed triple and the items
\* scattered out of it.
C19_OffScreenUntouched ==
    [][TriplePlaced =>
          \A cid \in off_screen_ids :
              LET step == trace'[Len(trace')]
              IN  /\ cid \notin step.scattered_to
                  /\ cid \notin step.variance
                  /\ cid # step.host =>
                        \A x \in DOMAIN grid : x[1] = cid => grid'[x] = grid[x]
                  /\ cid = step.host =>
                        \A x \in ReceivedInFront(cid) :
                            grid'[x] = all_triples[total_triples + 1]]_vars

\* An off-screen container holds items, and a loop iteration with a variance
\* move has run beside it.
C19_Witness ==
    /\ pc = "place"
    /\ \E cid \in off_screen_ids : \E x \in DOMAIN grid : x[1] = cid /\ grid[x] # None
    /\ \E j \in 1..Len(trace) :
          /\ trace[j].variance # {}
          /\ trace[j].scattered_to # {}
          /\ trace[j].host \notin off_screen_ids


\* The board of the grid as the forward game starts on it.
ReturnedBoard ==
    position(process_all_matches(initialize_state(LevelOf(containers, grid))).state)

\* The boards within k legal moves of the boards seen, front being those
\* reached last.
RECURSIVE WithinMoves(_, _, _)
WithinMoves(seen, front, k) ==
    IF k = 0 \/ front = {} THEN seen
    ELSE LET next == full_successors(front) \ seen
         IN  WithinMoves(seen \cup next, next, k - 1)

\* C14: every board returned by reverse_place_items is cleared by some
\* sequence of legal forward moves (matches, unlocks and row advances
\* applied after each move) of at most construction_move_count moves.
C14_ForwardSolution ==
    Returned => Cleared(WithinMoves({ReturnedBoard}, {ReturnedBoard}, total_moves))


(***************************************************************************)
(* Properties of generate_levels.                                          *)
(***************************************************************************)
Emitted == pc = "emitted"

\* The result of solve_level_best for the emitted board.
Verdict == ensemble_result.result

NoLegalMove(board) ==
    ~\E k1 \in DOMAIN board.containers, k2 \in DOMAIN board.containers :
        \E s1 \in DOMAIN board.containers[k1].slots,
           s2 \in DOMAIN board.containers[k2].slots :
            LegalMove(board, Move(k1, s1, k2, s2, board.containers[k1].slots[s1][0]))

\* Every cell of every container of the level holds an initial item.
FullyOccupied(lv) ==
    /\ lv.containers # <<>>
    /\ \A i \in DOMAIN lv.containers :
          Len(lv.containers[i].initial_items) =
              lv.containers[i].slot_count * lv.containers[i].max_rows_per_slot

\* No container of 3 slots or more has a front row full of one item type.
NoMatchingFrontRow(board) ==
    \A k \in DOMAIN board.containers :
        ~(board.containers[k].slot_count >= 3 /\ FullFrontRow(board.containers[k]))

\* The step returns the 'No valid moves' result.
ReturnsNoMoves == pc = "loop" /\ pc' = "done" /\ FailedNoMoves'

\* C21: a step returns 'No valid moves' exactly when the while test passes
\* (items remain, limit not reached) and the board has no legal move; the
\* reason then carries the number of items on the board, which is positive,
\* and total_moves is the number of moves made; a call on a fully occupied
\* level without a matching front row returns this failure with 0 moves.
C21_NoValidMoves ==
    [][/\ ReturnsNoMoves <=> (AtSolverStep /\ NoLegalMove(state))
       /\ ReturnsNoMoves =>
            /\ result'.items_remaining = ItemCount(state)
            /\ result'.items_remaining > 0
            /\ result'.total_moves = state.move_count
            /\ state' = state
       /\ (pc' = "done" /\ FullyOccupied(level')
              /\ NoMatchingFrontRow(initialize_state(level'))) =>
            /\ FailedNoMoves'
            /\ result'.total_moves = 0]_vars

\* A call on a fully occupied level of several containers returned 'No valid
\* moves' without a move.
C21_Witness ==
    /\ pc = "done"
    /\ FailedNoMoves
    /\ result.total_moves = 0
    /\ result.items_remaining >= 6
    /\ FullyOccupied(level)
    /\ Len(level.containers) >= 2

(***************************************************************************)
(* Properties of solve_level_best.                                         *)
(***************************************************************************)

\* The move counts of the successful runs made so far.
SuccessfulMoves == {entry_of.total_moves : entry_of \in {e \in run_log : e.success}}

\* The least element of a non-empty set of numbers.
Minimum(S) == CHOOSE m \in S : \A n \in S : m <= n

\* The step makes one run of the ensemble.
RunMade == pc = "ensemble" /\ runs_done' = runs_done + 1

\* C22: during the runs of the ensemble best is None exactly while no run
\* has succeeded, and the limit is then the initial one; otherwise best is
\* a successful result with the least move count of the successful runs so
\* far and the limit is that count.  A run replaces best only by its own
\* successful result with strictly fewer moves, the limit passed to a run is
\* the least count so far, and the limit never grows.
C22_BestIsMinimum ==
    /\ [](pc = "ensemble" =>
            IF SuccessfulMoves = {}
            THEN best_result = <<>> /\ move_limit = first_move_limit(level)
            ELSE /\ best_result # <<>>
                 /\ best_result[1].success
                 /\ best_result[1].total_moves = Minimum(SuccessfulMoves)
                 /\ move_limit = Minimum(SuccessfulMoves))
    /\ [][RunMade =>
            /\ move_limit' <= move_limit
            /\ logged(move_limit, result') \in run_log'
            /\ best_result' # best_result =>
                  /\ best_result' = <<result'>>
                  /\ result'.success
                  /\ best_result # <<>> =>
                        result'.total_moves < best_result[1].total_moves
            /\ best_result' = best_result => move_limit' = move_limit]_vars

\* A successful run replaced a kept result of more moves.
C22_Witness ==
    /\ pc = "ensemble"
    /\ best_result # <<>>
    /\ best_result[1] = result
    /\ \E e \in run_log : e.success /\ e.total_moves > result.total_moves
    /\ \E e \in run_log : ~e.success

\* The step is the return of solve_level_best.
EnsembleReturned == pc = "ensemble" /\ pc' = "returned"

\* C23: the return comes after all runs of the ensemble; the last-resort
\* run (no strategy, default limit MAX_MOVES) is made exactly when no run of
\* the ensemble succeeded, and its result is then returned; otherwise no run
\* is made and best is returned.  A returned failure is the failure of the
\* last-resort run after the failure of every run of the ensemble.
C23_LastResortRun ==
    /\ [][EnsembleReturned =>
            /\ runs_done = NumEnsembleRuns
            /\ ensemble_result'.fallback <=> SuccessfulMoves = {}
            /\ ensemble_result'.fallback =>
                  /\ strategy' = NoStrategy
                  /\ run_log' = run_log \cup {logged(0, result')}
                  /\ ensemble_result'.result = result'
                  /\ (~result'.success /\ result'.failure_reason = "Max moves exceeded")
                        => result'.total_moves = MAX_MOVES
            /\ ~ensemble_result'.fallback =>
                  /\ run_log' = run_log
                  /\ result' = result
                  /\ ensemble_result'.result = best_result[1]
                  /\ ensemble_result'.result.success]_vars
    /\ []((pc = "returned" /\ ~ensemble_result.result.success) =>
            /\ ensemble_result.fallback
            /\ \A e \in run_log : ~e.success
            /\ logged(0, ensemble_result.result) \in run_log)

\* Every run of the ensemble failed under the limit 2 and the last-resort
\* run failed after MAX_MOVES moves.
C23_Witness ==
    /\ pc = "returned"
    /\ ensemble_result.fallback
    /\ ~ensemble_result.result.success
    /\ ensemble_result.result.total_moves = MAX_MOVES
    /\ level.construction_moves = 2
    /\ runs_done = NumEnsembleRuns

\* Every run was launched and has returned.
ParallelDone == pc = "parallel" /\ pending = {} /\ DOMAIN launched = {}

\* The move counts of the runs that succeed under the initial limit.
DrawnSuccesses ==
    {draws[i].total_moves : i \in {j \in DOMAIN draws : draws[j].success}}

\* The step is the return of a run, run runs_done'.
RunFinished ==
    /\ pc = "parallel"
    /\ pending' = pending
    /\ DOMAIN launched' # DOMAIN launched

\* C24: when some run succeeds under the initial limit, then after all runs,
\* in whatever order they were launched and returned and whatever limit
\* each one was launched with, best holds the least move count of the runs
\* that succeed under the initial limit.  A run launched under a tightened
\* limit returns the result it has under the initial limit, or fails with
\* 'Max moves exceeded' at its limit because that result has more moves.
C24_MinimumWhateverOrder ==
    /\ []((ParallelDone /\ DrawnSuccesses # {}) =>
            /\ best_result # <<>>
            /\ best_result[1].success
            /\ best_result[1].total_moves = Minimum(DrawnSuccesses)
            /\ move_limit = Minimum(DrawnSuccesses))
    /\ [][RunFinished =>
            /\ result'.success => result' = draws[runs_done']
            /\ (~result'.success /\ draws[runs_done'].success) =>
                  /\ result'.failure_reason = "Max moves exceeded"
                  /\ result'.total_moves = launched[runs_done']
                  /\ launched[runs_done'] < draws[runs_done'].total_moves
            /\ ~draws[runs_done'].success => ~result'.success]_vars

\* All runs returned; the last one, launched before a tightening, succeeded
\* with more moves than best, and a run of the same count launched later
\* failed.
C24_Witness ==
    /\ ParallelDone
    /\ best_result # <<>>
    /\ result.success
    /\ result.total_moves > best_result[1].total_moves
    /\ move_limit < first_move_limit(level)
    /\ Cardinality(DrawnSuccesses) >= 2

(***************************************************************************)
(* Properties of the clones of _score_move_unified.                        *)
(***************************************************************************)
CloneNames == {"state", "test_state", "fu_state", "deadlock_test"}

\* The name whose GameState the step at pc binds or changes.
Written ==
    CASE pc \in {"score", "cloned"} -> "test_state"
      [] pc \in {"moved", "follow"} -> "fu_state"
      [] pc \in {"deadlock", "deadlock_cloned"} -> "deadlock_test"
      [] OTHER -> "none"

\* C25: during the scoring of a move the live GameState keeps the cells,
\* lock flags, unlock progress, move_count and match_count it had at the
\* call; a clone starts equal to the GameState it is cloned from; and a
\* step that binds or changes one GameState leaves every other bound
\* GameState as it is, the one it was cloned from included.
C25_ClonesIndependent ==
    /\ [](pc \in {"score", "cloned", "moved", "follow", "deadlock",
                  "deadlock_cloned", "scored"} =>
            deref(heap, refs.state) = state)
    /\ [](pc = "cloned" =>
            deref(heap, refs.test_state) = deref(heap, refs.state))
    /\ [](pc \in {"follow", "deadlock_cloned"} =>
            deref(heap, refs[Written]) = deref(heap, refs.test_state))
    /\ [][Written # "none" =>
            \A name \in CloneNames \ {Written} :
                refs[name] # NoRef =>
                    /\ refs'[name] = refs[name]
                    /\ deref(heap', refs[name]) = deref(heap, refs[name])]_vars

\* The call made its three clones: the follow-up on fu_state made a match
\* that advanced a row and unlocked a container, and test_state and the
\* live board differ.
C25_Witness ==
    /\ pc = "scored"
    /\ \A name \in CloneNames : refs[name] # NoRef
    /\ deref(heap, refs.test_state) # deref(heap, refs.state)
    /\ deref(heap, refs.fu_state).match_count > state.match_count
    /\ \E k \in DOMAIN state.containers :
          /\ state.containers[k].is_locked
          /\ ~deref(heap, refs.fu_state).containers[k].is_locked
          /\ deref(heap, refs.deadlock_test).containers[k].is_locked

(***************************************************************************)
(* Properties of _initialize_state.                                        *)
(***************************************************************************)
InGrid(item, slot_count, max_rows) ==
    /\ 0 <= item.slot /\ item.slot < slot_count
    /\ 0 <= item.row /\ item.row < max_rows

\* The positions of the initial items that declare cell (s, r).
Declaring(items, s, r) ==
    {i \in 1..Len(items) : items[i].slot = s /\ items[i].row = r}

Maximum(S) == CHOOSE x \in S : \A y \in S : y <= x

\* The grid of container c is that of its declaration cdef: the shape with
\* the defaults 3 and 4 for non-positive counts, and in every cell the item
\* declared for it (the last one when several declare the same cell).
InitializedFrom(c, cdef) ==
    LET slot_count == IF cdef.slot_count <= 0 THEN 3 ELSE cdef.slot_count
        max_rows == IF cdef.max_rows_per_slot <= 0 THEN 4
                    ELSE cdef.max_rows_per_slot
    IN  /\ c.slot_count = slot_count
        /\ c.max_rows = max_rows
        /\ DOMAIN c.slots = Range0(slot_count)
        /\ \A s \in Range0(slot_count) :
              /\ DOMAIN c.slots[s] = Range0(max_rows)
              /\ \A r \in Range0(max_rows) :
                    LET declaring == Declaring(cdef.initial_items, s, r)
                    IN  c.slots[s][r] =
                            IF declaring = {} THEN None
                            ELSE cdef.initial_items[Maximum(declaring)].id
        /\ c.is_locked = cdef.is_locked
        /\ c.unlock_matches_required = cdef.unlock_matches_required
        /\ c.current_unlock_progress = 0

\* C26: _initialize_state returns a GameState for every level dict: a
\* declared slot_count <= 0 becomes 3 and a declared max_rows_per_slot <= 0
\* becomes 4, an initial item outside the resulting grid is ignored, every
\* item inside it is placed at its declared cell, and solve_level never
\* returns 'Failed to initialize state'.
C26_MalformedCoerced ==
    /\ pc = "initialized" =>
          /\ ~state_is_none(state)
          /\ DOMAIN state.containers = Range0(Len(level.containers))
          /\ \A k \in DOMAIN state.containers :
                InitializedFrom(state.containers[k], level.containers[k + 1])
          /\ state.move_count = 0 /\ state.match_count = 0
    /\ result.failure_reason # "Failed to initialize state"

\* A call returned success on a level whose first container declares no
\* slots and no rows, one item outside the 3 x 4 grid and two inside it.
C26_Witness ==
    /\ pc = "done"
    /\ result.success
    /\ level.containers[1].slot_count <= 0
    /\ level.containers[1].max_rows_per_slot <= 0
    /\ \E i \in 1..3 : ~InGrid(level.containers[1].initial_items[i], 3, 4)
    /\ Cardinality({i \in 1..3 : InGrid(level.containers[1].initial_items[i], 3, 4)}) = 2

(***************************************************************************)
(* Properties of the loop over the levels of generate_levels.              *)
(***************************************************************************)
\* The verdicts solve_level_best can give on the level_data just built.
Verdicts == {outcome.result.success : outcome \in solve_level_best(level_data)}

\* The step of lines 628-653 wrote the file of the level.
Wrote(solved) ==
    /\ files' = Append(files, written(level_data, solved))
    /\ errors' = IF solved THEN errors ELSE Append(errors, "Solver failed")
    /\ IF level_number < BatchCount
       THEN level_number' = level_number + 1 /\ pc' = "start"
       ELSE pc' = "generated"

\* C27: for every level generate_levels makes at most MAX_ATTEMPTS calls
\* of generate_level, each under another seed; an attempt is followed by a
\* further attempt only when the ensemble did not solve its board and fewer
\* than MAX_ATTEMPTS attempts were made; the level's one file is written
\* with the first solved board, or with the board of the last attempt and
\* one 'Solver failed' error; and after either the loop goes on with the
\* next level until every level has its file.
C27_OneBoardPerLevel ==
    /\ [](/\ Len(seeds) <= MAX_ATTEMPTS
          /\ \A i, j \in DOMAIN seeds : i # j => seeds[i] # seeds[j]
          /\ pc \in {"place", "built"} => Len(seeds) = attempt + 1
          /\ Len(files) = IF pc = "generated" THEN BatchCount ELSE level_number - 1
          /\ Len(errors) = Cardinality({l \in DOMAIN files : ~files[l].solved}))
    /\ [][pc = "built" =>
            \/ /\ TRUE \in Verdicts
               /\ Wrote(TRUE)
            \/ /\ FALSE \in Verdicts
               /\ Len(seeds) = MAX_ATTEMPTS
               /\ Wrote(FALSE)
            \/ /\ FALSE \in Verdicts
               /\ Len(seeds) < MAX_ATTEMPTS
               /\ pc' = "retry"
               /\ attempt' = attempt + 1
               /\ UNCHANGED <<files, errors, level_number>>]_vars
    /\ [][pc # "built" => UNCHANGED <<files, errors, level_number>>]_vars

\* Every level has its file: the first level failed all its attempts and was
\* written with an error, the level after it was generated and solved.
C27_Witness ==
    /\ pc = "generated"
    /\ Len(files) = BatchCount
    /\ ~files[1].solved
    /\ files[2].solved
    /\ errors = <<"Solver failed">>

(***************************************************************************)
(* Properties of the move limit of solve_level.                            *)
(***************************************************************************)
\* Line 227: the limit the call works under.
EffectiveLimit == IF move_limit > 0 THEN move_limit ELSE 500

\* C28: solve_level executes no more moves than its effective limit
\* (move_limit when it is > 0, otherwise 500): total_moves <= limit on every
\* return; the result is 'Max moves exceeded' exactly when move_count has
\* reached the limit while items remain; and a board that is empty at the
\* return is a success, also when the last move reached the limit.
C28_WithinLimit ==
    /\ [](pc \in {"loop", "done"} =>
            /\ effective_limit = EffectiveLimit
            /\ state.move_count <= EffectiveLimit)
    /\ [](pc = "done" =>
            /\ result.total_moves = state.move_count
            /\ result.total_moves <= EffectiveLimit
            /\ FailedLimitExceeded <=>
                  (state.move_count = EffectiveLimit /\ ~is_complete(state))
            /\ is_complete(state) => result.success)
    /\ [][pc = "loop" =>
            /\ state'.move_count \in {state.move_count, state.move_count + 1}
            /\ state'.move_count # state.move_count =>
                  state.move_count < EffectiveLimit]_vars

\* A call under a positive move_limit returned success with exactly
\* move_limit moves: its last move reached the limit and emptied the board.
C28_Witness ==
    /\ pc = "done"
    /\ move_limit > 0
    /\ result.success
    /\ result.total_moves = move_limit
    /\ is_complete(state)

(***************************************************************************)
(* Properties of the choice of _find_best_move.                            *)
(***************************************************************************)
\* Entry i of scored has a maximal score and is the first that has it.
FirstMaximal(i) ==
    /\ \A j \in DOMAIN scored : scored[j].score <= scored[i].score
    /\ \A j \in 1..(i - 1) : scored[j].score < scored[i].score

\* Move x comes before move y in the loops of _get_all_valid_moves: by
\* source container, then source slot, then destination container.
EnumeratedBefore(x, y) ==
    \/ x.from_container < y.from_container
    \/ /\ x.from_container = y.from_container
       /\ \/ x.from_slot < y.from_slot
          \/ x.from_slot = y.from_slot /\ x.to_container < y.to_container

\* C29: when no one-move match exists, scored lists the moves of
\* _get_all_valid_moves in their enumeration order (source container, source
\* slot, destination container ascending) with their final scores (penalties
\* and noise included), and the move _find_best_move returns, which
\* solve_level executes, is the first entry of that order whose final score
\* is maximal.
C29_FirstMaximalChosen ==
    /\ [](pc = "scored" =>
            /\ find_one_move_match(state) = NoMove
            /\ Len(scored) = Len(get_all_valid_moves(state))
            /\ Len(scored) > 0
            /\ \A i \in DOMAIN scored : scored[i].move = get_all_valid_moves(state)[i]
            /\ \A i, j \in DOMAIN scored :
                  i < j => EnumeratedBefore(scored[i].move, scored[j].move))
    /\ [][pc = "scored" =>
            /\ \E i \in DOMAIN scored :
                  FirstMaximal(i) /\ best_move' = scored[i].move
            /\ MoveExecuted /\ ExecutedMove = best_move'
            /\ best_move' \in find_best_move(state, last_move, recent_moves,
                                             strategy, noise_rng)]_vars

\* A choice under noise between several moves of the maximal final score,
\* one of them penalized: the first of them in the enumeration was taken.
C29_Witness ==
    /\ pc \in {"loop", "done"}
    /\ noise_applies(strategy, noise_rng)
    /\ \E i, j, k \in DOMAIN scored :
          /\ FirstMaximal(i)
          /\ best_move = scored[i].move
          /\ i < j
          /\ scored[j].score = scored[i].score
          /\ scored[k].score < 0 - 400

(***************************************************************************)
(* Properties of the anti-repetition history of solve_level.               *)
(***************************************************************************)
\* The last n elements of a sequence (all of it when it is shorter).
LastOf(seq, n) ==
    IF Len(seq) <= n THEN seq ELSE SubSeq(seq, Len(seq) - n + 1, Len(seq))

\* C30: at every while test of solve_level recent_moves holds the moves
\* executed since the most recent step whose match processing found a match
\* (since the start when there was none), cut to the PATTERN_WINDOW = 10
\* most recent: a step that finds a match empties it and unsets last_move,
\* a step that finds none appends its move, keeps the 10 most recent and
\* sets last_move to the move it executed.
C30_HistorySinceMatch ==
    /\ [](pc \in {"loop", "done"} =>
            /\ Len(recent_moves) <= PATTERN_WINDOW
            /\ recent_moves = LastOf(result.move_sequence, Len(recent_moves))
            /\ state.match_count = 0 =>
                  recent_moves = LastOf(result.move_sequence, PATTERN_WINDOW)
            /\ new_matches > 0 => recent_moves = <<>>
            /\ last_move = IF recent_moves = <<>> THEN NoMove
                           ELSE recent_moves[Len(recent_moves)])
    /\ [][MoveExecuted =>
            /\ new_matches' = state'.match_count - state.match_count
            /\ IF new_matches' > 0
               THEN recent_moves' = <<>> /\ last_move' = NoMove
               ELSE /\ recent_moves' =
                          LastOf(Append(recent_moves, ExecutedMove), PATTERN_WINDOW)
                    /\ last_move' = ExecutedMove]_vars
    /\ [][~MoveExecuted /\ pc = "loop" =>
            UNCHANGED <<recent_moves, last_move>>]_vars

\* A run made more than PATTERN_WINDOW moves without a match: the history
\* holds the last 10 of them.
C30_Witness ==
    /\ pc = "loop"
    /\ Len(result.move_sequence) > PATTERN_WINDOW
    /\ state.match_count = 0
    /\ Len(recent_moves) = PATTERN_WINDOW
    /\ recent_moves = LastOf(result.move_sequence, PATTERN_WINDOW)

(***************************************************************************)
(* Properties of the penalties of _find_best_move.                         *)
(***************************************************************************)
\* The move carries the item of the preceding move back to where it came
\* from.
ReversesLastMove(move) ==
    /\ last_move # NoMove
    /\ move.item_id = last_move.item_id
    /\ move.from_container = last_move.to_container
    /\ move.to_container = last_move.from_container

\* Some move of the history carried the item from the move's destination
\* container to its source container.
ReversesRecentMove(move) ==
    \E i \in DOMAIN recent_moves :
        /\ recent_moves[i].item_id = move.item_id
        /\ recent_moves[i].from_container = move.to_container
        /\ recent_moves[i].to_container = move.from_container

\* What entry e of scored lost to the penalties.
Penalty(e) == e.unified + e.noise - e.score

\* C31: in the scored path of _find_best_move a candidate loses 1000 exactly
\* when it carries the item of the immediately preceding move with source
\* and destination container swapped, and 500 exactly when its reverse
\* signature is that of a move of the recent history; the two add up, they
\* are the same under every strategy, and a one-move match is returned
\* without being scored.
C31_Penalties ==
    /\ [](pc = "scored" =>
            \A i \in DOMAIN scored :
                Penalty(scored[i]) =
                    (IF ReversesLastMove(scored[i].move) THEN 1000 ELSE 0)
                    + (IF ReversesRecentMove(scored[i].move) THEN 500 ELSE 0))
    /\ [][(pc = "loop" /\ find_one_move_match(state) # NoMove /\ MoveExecuted) =>
            /\ ExecutedMove = find_one_move_match(state)
            /\ scored' = <<>>]_vars

\* A list scored after two moves without a match: a candidate reverses the
\* older move of the history and not the preceding one, and loses 500.
C31_Witness ==
    /\ pc = "scored"
    /\ last_move # NoMove
    /\ Len(recent_moves) >= 2
    /\ \E i \in DOMAIN scored :
          /\ ReversesRecentMove(scored[i].move)
          /\ ~ReversesLastMove(scored[i].move)
          /\ Penalty(scored[i]) = 500

(***************************************************************************)
(* Properties of the placement loop of reverse_place_items.                *)
(***************************************************************************)
\* Container cid can host a triple: it is active, has at least 3 slots, and
\* its front row is empty or its deepest row is empty in every slot.
CanHost(cid) ==
    /\ is_active(cid, total_triples)
    /\ containers[cid].slot_count >= 3
    /\ \/ \A s \in SlotsOf(cid) : grid[<<cid, s, 0>>] = None
       \/ \A s \in SlotsOf(cid) :
             grid[<<cid, s, containers[cid].max_rows_per_slot - 1>>] = None

\* The step places a triple.
TriplePlacedNow == pc = "place" /\ total_triples' = total_triples + 1

\* The step leaves the placement loop.
LoopLeft == pc = "place" /\ pc' # "place"

\* C32: reverse_place_items takes the triples in the caller's order and
\* leaves the loop at the first triple no container can host (or after the
\* last triple); a triple is placed only in a container that can host it and
\* has its 3 items on the board from then on; no triple is placed after the
\* loop, and the triple count returned is the number of triples placed, at
\* most the number requested.
C32_StopsAtFirstUnhostable ==
    /\ [][TriplePlacedNow =>
            /\ \E cid \in ContainerIds : CanHost(cid)
            /\ CanHost(trace'[Len(trace')].host)
            /\ Len(trace') = total_triples'
            /\ \A item \in Items :
                  Cardinality({x \in DOMAIN grid' : grid'[x] = item}) =
                      Cardinality(CellsOf(item))
                      + (IF item = all_triples[total_triples + 1] THEN 3 ELSE 0)]_vars
    /\ [][LoopLeft =>
            /\ total_triples' = total_triples
            /\ \/ total_triples = Len(all_triples)
               \/ ~\E cid \in ContainerIds : CanHost(cid)]_vars
    /\ [][(pc \in {"fix", "depth", "built"}) => total_triples' = total_triples]_vars
    /\ [](Building =>
            /\ total_triples <= Len(all_triples)
            /\ \A item \in Items :
                  Cardinality(CellsOf(item)) = 3 * Cardinality(Placed(item)))

\* The loop broke with triples left: two triples are on the board with all
\* their items and the third was never placed.
C32_Witness ==
    /\ Returned
    /\ total_triples = 2
    /\ Len(all_triples) > 2
    /\ Cardinality({x \in DOMAIN grid : grid[x] # None}) = 6
    /\ ~\E cid \in ContainerIds : CanHost(cid)

(***************************************************************************)
(* Conservation of the items in solve_level.                               *)
(***************************************************************************)
\* How often item type t is on a board.
TypeCount(board, t) ==
    Cardinality({x \in UNION {{<<k, s, r>> : s \in DOMAIN board.containers[k].slots,
                                             r \in 0..(board.containers[k].max_rows - 1)} :
                              k \in DOMAIN board.containers} :
                    board.containers[x[1]].slots[x[2]][x[3]] = t})

\* The board _initialize_state builds for the level of the call.
InitialBoard == initialize_state(level)

\* C33: executing a move, the row advance of its source included, leaves
\* the number of items of every type as it is, and every match removes 3
\* items of one type: at every point of solve_level the board holds the
\* initial number of items minus 3 times match_count, every type as often
\* as initially up to a multiple of 3, and a level with a type whose count
\* is not a multiple of 3 is never reported as success.
C33_ItemsConserved ==
    /\ [](pc \in {"loop", "done"} =>
            /\ ItemCount(state) = ItemCount(InitialBoard) - 3 * state.match_count
            /\ \A t \in Items :
                  /\ TypeCount(state, t) <= TypeCount(InitialBoard, t)
                  /\ (TypeCount(InitialBoard, t) - TypeCount(state, t)) % 3 = 0)
    /\ [](pc = "done" =>
            ((\E t \in Items : TypeCount(InitialBoard, t) % 3 # 0) => ~result.success))
    /\ [][MoveExecuted =>
            /\ \A t \in Items :
                  TypeCount(execute_move(state, ExecutedMove), t) = TypeCount(state, t)
            /\ ItemCount(state') = ItemCount(state) - 3 * new_matches'
            /\ state'.match_count = state.match_count + new_matches']_vars

\* A level with 4 items of one type: after a move and a match one item is
\* left and the call returns a failure.
C33_Witness ==
    /\ pc = "done"
    /\ TypeCount(InitialBoard, 1) = 4
    /\ result.move_sequence # <<>>
    /\ state.match_count = 1
    /\ ItemCount(state) = 1
    /\ ~result.success

(***************************************************************************)
(* Locked containers during solve_level.                                   *)
(***************************************************************************)
\* C35: while a container is locked no operation of the solver (move,
\* match processing, row advance) changes any of its cells: a locked
\* container holds the cells _initialize_state gave it, so a complete
\* same-type front row in it is matched only after the container unlocked.
C35_LockedUntouched ==
    pc \in {"loop", "done"} =>
        \A k \in DOMAIN state.containers :
            state.containers[k].is_locked =>
                state.containers[k].slots = InitialBoard.containers[k].slots

(***************************************************************************)
(* The counts of the result of solve_level.                                *)
(***************************************************************************)
\* The matches _process_all_matches makes at line 241, before the first move.
InitialMatches == process_all_matches(InitialBoard).total

\* C34: on every return of solve_level total_moves is the length of
\* move_sequence and total_matches the number of matches processed since
\* initialization, those before the first move included; move_sequence
\* holds the executed moves in the order of their execution.
C34_CountsOfTheResult ==
    /\ [](pc \in {"loop", "done"} => Len(result.move_sequence) = state.move_count)
    /\ [](pc = "loop" /\ result.move_sequence = <<>> =>
            state.match_count = InitialMatches)
    /\ [](pc = "done" =>
            /\ result.total_moves = Len(result.move_sequence)
            /\ result.total_matches = state.match_count
            /\ result.total_matches >= InitialMatches)
    /\ [][pc = "loop" =>
            IF pc' = "loop"
            THEN /\ result'.move_sequence = Append(result.move_sequence, ExecutedMove)
                 /\ state' = process_all_matches(execute_move(state, ExecutedMove)).state
                 /\ state'.match_count = state.match_count + new_matches'
            ELSE /\ result'.move_sequence = result.move_sequence
                 /\ state' = state]_vars

\* A return after a match at initialization, a move and a second match.
C34_Witness ==
    /\ pc = "done"
    /\ InitialMatches = 1
    /\ Len(result.move_sequence) >= 1
    /\ result.total_moves = Len(result.move_sequence)
    /\ result.total_matches = 2

(***************************************************************************)
(* solve_level on levels whose locked container requires 0 or more         *)
(* matches.                                                                *)
(***************************************************************************)
\* The levels of LockedLayout and SingleLayout with the requirements
\* 0..MaxUnlock.
RequirementLevels ==
    {LevelOf(LockedLayout(n), fill) :
        n \in 0..MaxUnlock, fill \in Fills(LockedLayout(1))}
    \cup {LevelOf(SingleLayout(n), fill) :
            n \in 0..MaxUnlock, fill \in Fills(SingleLayout(1))}

RequirementInputs ==
    {Input(lv, strat, 0, limit) :
        lv \in RequirementLevels, strat \in {NoStrategy, BALANCED},
        limit \in 1..MaxMoveLimit}

InitRequirement == Init

\* The call, up to the first while test.
RequirementBegin ==
    /\ pc = "start"
    /\ \E input \in RequirementInputs :
          /\ SetInputs(input)
          /\ SetRun(solve_begin(input.level, input.strategy, input.noise_seed,
                                input.move_limit))
    /\ UNCHANGED <<twin_vars, match_vars, advance_vars, other_vars>>

NextRequirement == RequirementBegin \/ SolveStep \/ SolveReturn

SpecRequirement == InitRequirement /\ [][NextRequirement]_vars

\* C36: in every state of solve_level from the first while test on, a locked
\* container has current_unlock_progress < unlock_matches_required: a
\* container whose progress has reached its requirement, a requirement of 0
\* included, is not locked.
C36_LockedBelowRequirement ==
    pc \in {"loop", "done"} =>
        \A k \in DOMAIN state.containers :
            state.containers[k].is_locked =>
                state.containers[k].current_unlock_progress
                    < state.containers[k].unlock_matches_required

(***************************************************************************)
(* Hidden rows during solve_level.                                         *)
(***************************************************************************)
\* Container c holds an item behind an entirely empty front row.
HiddenBehindEmptyFront(c) ==
    /\ \A s \in DOMAIN c.slots : c.slots[s][0] = None
    /\ \E s \in DOMAIN c.slots : \E r \in 1..(c.max_rows - 1) : c.slots[s][r] # None

\* No container of the board hides items behind an empty front row.
Revealed(board) ==
    \A k \in DOMAIN board.containers : ~HiddenBehindEmptyFront(board.containers[k])

\* C37: when every container of the initial board that holds an item has
\* an item in its front row, then after the initial match processing and
\* after every completed step of solve_level no container has an entirely
\* empty front row with an item in a back row; a step never hides a row.
C37_HiddenRowsRevealed ==
    /\ [](pc \in {"loop", "done"} /\ Revealed(InitialBoard) => Revealed(state))
    /\ [][pc = "loop" /\ Revealed(state) => Revealed(state')]_vars

\* A move took the only front item of a container and its back row came to
\* the front, without any match.
C37_Witness ==
    /\ pc \in {"loop", "done"}
    /\ Revealed(InitialBoard)
    /\ result.move_sequence # <<>>
    /\ state.match_count = 0
    /\ \E k \in DOMAIN state.containers :
          \E s \in DOMAIN state.containers[k].slots :
              /\ state.containers[k].max_rows > 1
              /\ InitialBoard.containers[k].slots[s][0] = None
              /\ InitialBoard.containers[k].slots[s][1] # None
              /\ state.containers[k].slots[s][0] = InitialBoard.containers[k].slots[s][1]
              /\ state.containers[k].slots[s][1] = None

(***************************************************************************)
(* Front rows of the board reverse_place_items returns.                    *)
(***************************************************************************)
\* Container cid of the grid holds an item behind an entirely empty front
\* row.
EmptyFrontOverItems(cid) ==
    /\ \A s \in SlotsOf(cid) : grid[<<cid, s, 0>>] = None
    /\ \E x \in DOMAIN grid : x[1] = cid /\ x[3] > 0 /\ grid[x] # None

\* C38: the board reverse_place_items returns, after scattering, variance
\* moves, the make-room pass and all repair passes, has no container with
\* an entirely empty front row and an item in a back row.
C38_ReturnedBoardRevealed ==
    Returned => \A cid \in ContainerIds : ~EmptyFrontOverItems(cid)

(***************************************************************************)
(* Locked containers in the repair passes of reverse_place_items.          *)
(***************************************************************************)
\* The cells of the locked containers.
LockedCells == {x \in DOMAIN grid : containers[x[1]].is_locked}

\* C39: the repair passes after the construction loop and the make-room
\* pass (_fix_starting_triples, _ensure_no_empty_containers,
\* _ensure_singleslot_depth) leave every cell of every locked container as
\* it is: no item is put into, taken out of or swapped in a locked
\* container.
C39_RepairLeavesLocked ==
    [][(pc \in {"fix", "depth"}) => (\A x \in LockedCells : grid'[x] = grid[x])]_vars

(***************************************************************************)
(* The emitted form of a level: _compact_container and _compact_level      *)
(* (reverse_generator.py, lines 543-592), and solve_level on a level       *)
(* record and on its compact form, step by step.  Numbers with a fraction  *)
(* (positions) are counted in hundredths.                                  *)
(***************************************************************************)
\* make_container (level_generator.py, lines 467-500) with the items of
\* container c: the container dict of a generated level.
make_container(c, placed_at, is_moving) ==
    [id |-> c.id,
     position |-> placed_at,
     container_type |-> "standard",
     container_image |-> "container",
     slot_count |-> c.slot_count,
     max_rows_per_slot |-> c.max_rows_per_slot,
     is_locked |-> c.is_locked,
     unlock_matches_required |-> c.unlock_matches_required,
     lock_overlay_image |-> IF c.is_locked THEN "lock_overlay" ELSE "",
     unlock_animation |-> "",
     is_moving |-> is_moving,
     move_type |-> IF is_moving THEN "back_and_forth" ELSE "",
     move_direction |-> IF is_moving THEN "left" ELSE "",
     move_speed |-> 50,
     move_distance |-> 200,
     track_id |-> "",
     is_falling |-> FALSE,
     fall_speed |-> 100,
     fall_target_y |-> 0,
     despawn_on_match |-> FALSE,
     initial_items |-> c.initial_items]

_CONTAINER_DEFAULTS ==
    [is_locked |-> FALSE,
     unlock_matches_required |-> 0,
     lock_overlay_image |-> "",
     unlock_animation |-> "",
     is_moving |-> FALSE,
     move_type |-> "",
     move_direction |-> "",
     move_speed |-> 50,
     move_distance |-> 200,
     track_id |-> "",
     is_falling |-> FALSE,
     fall_speed |-> 100,
     fall_target_y |-> 0,
     despawn_on_match |-> FALSE]

_ALWAYS_REMOVE == {"unlock_animation"}

\* round(value, 1) of a number given in hundredths: the nearest tenth, a
\* tie going to the even one.
round_1(hundredths) ==
    LET q == hundredths \div 10
        r == hundredths % 10
    IN  IF r < 5 THEN q * 10
        ELSE IF r > 5 THEN (q + 1) * 10
        ELSE IF q % 2 = 0 THEN q * 10 ELSE (q + 1) * 10

\* Faulty variant of _compact_container: a row count of 1 is taken for a
\* default and stripped.
compact_container_one_row(container) ==
    LET kept == {key \in DOMAIN container :
                    /\ key \notin _ALWAYS_REMOVE
                    /\ ~(key \in DOMAIN _CONTAINER_DEFAULTS
                         /\ container[key] = _CONTAINER_DEFAULTS[key])
                    /\ ~(key = "max_rows_per_slot" /\ container[key] = 1)}
    IN  [key \in kept |->
            IF key = "position"
            THEN [x |-> round_1(container[key].x), y |-> round_1(container[key].y)]
            ELSE container[key]]

\* _compact_container: the fields equal to their default and the fields
\* always removed are left out, positions are rounded.
compact_container(container) ==
    LET kept == {key \in DOMAIN container :
                    /\ key \notin _ALWAYS_REMOVE
                    /\ ~(key \in DOMAIN _CONTAINER_DEFAULTS
                         /\ container[key] = _CONTAINER_DEFAULTS[key])}
    IN  [key \in kept |->
            IF key = "position"
            THEN [x |-> round_1(container[key].x), y |-> round_1(container[key].y)]
            ELSE container[key]]

\* _compact_level.
compact_level(level_record) ==
    LET kept == {key \in DOMAIN level_record :
                    ~(key = "moving_tracks" /\ level_record[key] = <<>>)}
    IN  [key \in kept |->
            IF key = "containers"
            THEN [i \in DOMAIN level_record[key] |-> compact_container(level_record[key][i])]
            ELSE level_record[key]]

\* The positions and the track lists of the level records explored.
Positions == {[x |-> 12345, y |-> 0 - 6789], [x |-> 500, y |-> 25]}
MovingTracks == {<<>>, <<"track_1">>}

\* The level dict of generate_level (lines 531-537) around the containers of
\* level lv.
generated_level(lv, placed_at, tracks, construction_moves) ==
    [id |-> 7, world_id |-> "island", name |-> "level_007",
     star_move_thresholds |-> <<2, 3, 4, 5>>,
     time_limit_seconds |-> 90,
     containers |-> [i \in DOMAIN lv.containers |->
                        make_container(lv.containers[i], placed_at, i = 1)],
     moving_tracks |-> tracks,
     construction_moves |-> construction_moves]

CompactLevels ==
    {generated_level(lv, placed_at, tracks, MaxMoveLimit) :
        lv \in RequirementLevels \cup DeepLevels,
        placed_at \in Positions, tracks \in MovingTracks}

InitCompact == Init

\* The call on a level record (Run) and the call on its compact form (twin),
\* up to their first while test.
CompactBegin ==
    /\ pc = "start"
    /\ \E lv \in CompactLevels, strat \in {NoStrategy, BALANCED} :
          /\ SetInputs(Input(lv, strat, 0, MaxMoveLimit))
          /\ SetRun(solve_begin(lv, strat, 0, MaxMoveLimit))
          /\ twin' = solve_begin(compact_level(lv), strat, 0, MaxMoveLimit)
    /\ UNCHANGED <<twin_seed, match_vars, advance_vars, other_vars>>

NextCompact == CompactBegin \/ TwinStep

SpecCompact == InitCompact /\ [][NextCompact]_vars

\* The level-level metadata the solver does not interpret.
Metadata == {"id", "world_id", "star_move_thresholds", "time_limit_seconds"}

\* C40: solve_level leaves its level record as it is, and on the compact
\* form of a level record it builds the same board and returns the same
\* success flag, move sequence, counts and reason as on the record itself;
\* the compact form keeps the metadata and every container field the solver
\* reads, or strips it only when it equals the default the solver assumes.
C40_CompactFormSolvedAlike ==
    /\ [](pc # "start" =>
            /\ initialize_state(compact_level(level)) = initialize_state(level)
            /\ twin.pc = pc
            /\ twin.state = state
            /\ twin.result = result
            /\ \A key \in Metadata : compact_level(level)[key] = level[key])
    /\ [][(pc # "start") => level' = level]_vars

\* Both calls returned a success after a move, on a record whose compact
\* form has lost is_locked in one container and kept it in another whose
\* requirement of 0 was stripped.
C40_Witness ==
    /\ pc = "done" /\ twin.pc = "done"
    /\ result.success
    /\ result.move_sequence # <<>>
    /\ \E k \in DOMAIN level.containers :
          "is_locked" \notin DOMAIN compact_level(level).containers[k]
    /\ \E k \in DOMAIN level.containers :
          /\ "is_locked" \in DOMAIN compact_level(level).containers[k]
          /\ "unlock_matches_required" \notin DOMAIN compact_level(level).containers[k]
    /\ "moving_tracks" \notin DOMAIN compact_level(level)

====
